---- MODULE Spec2Model ----
(***************************************************************************)
(* Semi-Vibe-Device simulator: the register memory (DeviceMemory), the     *)
(* command interpreter process_command and the sensor simulation           *)
(* update_sensors of src/src/semi_vibe_device.c.                           *)
(*                                                                         *)
(* A payload is a C string, modelled as a sequence of one-character        *)
(* strings.  Registers are bytes (0..255).                                 *)
(***************************************************************************)
EXTENDS Integers, Sequences, FiniteSets, TLC

(***************************************************************************)
(* Bounds of the exploration.                                              *)
(***************************************************************************)
\* number of commands handed to the interpreter in one behaviour
MaxCmds == 2

(***************************************************************************)
(* Byte arithmetic (uint8_t operands of the C operators &, |, ~).          *)
(***************************************************************************)
Bit(x, i) == (x \div (2 ^ i)) % 2

RECURSIVE AndBits(_, _, _)
AndBits(a, b, n) ==
    IF n = 0 \/ a = 0 \/ b = 0 THEN 0
    ELSE (a % 2) * (b % 2) + 2 * AndBits(a \div 2, b \div 2, n - 1)

\* a & b
BitAnd(a, b) == AndBits(a, b, 8)

\* a | b
BitOr(a, b) == a + b - BitAnd(a, b)

\* a & ~m on a uint8_t
BitClear(a, m) == a - BitAnd(a, m)

\* (uint8_t) of an int
U8(x) == x % 256

(***************************************************************************)
(* Text of a frame: strtol(.., 16) of one or two digits, and "%02X".       *)
(***************************************************************************)
HexUpper == <<"0", "1", "2", "3", "4", "5", "6", "7",
              "8", "9", "A", "B", "C", "D", "E", "F">>

HexLower == <<"0", "1", "2", "3", "4", "5", "6", "7",
              "8", "9", "a", "b", "c", "d", "e", "f">>

HexChars == {HexUpper[i] : i \in 1..16} \cup {HexLower[i] : i \in 1..16}

\* lines 261-263
IsHexChar(c) == c \in HexChars

\* strtol(c, NULL, 16) of one hex character
HexTable ==
    [c \in HexChars |->
        (CHOOSE i \in 1..16 : c = HexUpper[i] \/ c = HexLower[i]) - 1]

HexVal(c) == HexTable[c]

Hex2(v) == <<HexUpper[(v \div 16) + 1], HexUpper[(v % 16) + 1]>>

ERR_FORBIDDEN == <<"1", "F", "F", "F", "F", "F">>
ERR_INVALID == <<"2", "F", "F", "F", "F", "F">>
ERR_GENERAL == <<"3", "F", "F", "F", "F", "F">>

(***************************************************************************)
(* process_command, lines 253-267: the payload is six hex characters.      *)
(***************************************************************************)
ValidFormat(cmd) ==
    /\ Len(cmd) = 6
    /\ \A i \in 1..6 : IsHexChar(cmd[i])

\* lines 275-278
ParseBase(cmd) == HexVal(cmd[1])
ParseOffset(cmd) == 16 * HexVal(cmd[2]) + HexVal(cmd[3])
ParseRw(cmd) == HexVal(cmd[4])
\* variant: only the last digit of the data field is read
ParseData_LastDigit(cmd) == HexVal(cmd[6])

ParseData(cmd) == 16 * HexVal(cmd[5]) + HexVal(cmd[6])

\* variant: any value of the rw digit passes the check of line 281
RwValid_AnyNibble(rw) == rw \in 0..15

\* line 281
RwValid(rw) == rw = 0 \/ rw = 1

(***************************************************************************)
(* Base 1 (MAIN) and base 2 (SENSOR), read branch: the register read, or   *)
(* valid = FALSE for an unrecognized offset.                               *)
(***************************************************************************)
\* variant: every offset of MAIN is answered as a register that reads 0
MainRead_AnyOffset(mem, offset) == [valid |-> TRUE, read_data |-> 0]

MainRead(mem, offset) ==
    CASE offset = 0 -> [valid |-> TRUE, read_data |-> mem.connected_device]
      [] offset = 1 -> [valid |-> TRUE, read_data |-> mem.reserved_main]
      [] offset = 2 -> [valid |-> TRUE, read_data |-> mem.power_state]
      [] offset = 3 -> [valid |-> TRUE, read_data |-> mem.error_state]
      [] OTHER -> [valid |-> FALSE, read_data |-> 0]

SensorRead(mem, offset) ==
    CASE offset = 16 -> [valid |-> TRUE, read_data |-> mem.sensor_a_id]
      [] offset = 17 -> [valid |-> TRUE, read_data |-> mem.sensor_a_reading]
      [] offset = 32 -> [valid |-> TRUE, read_data |-> mem.sensor_b_id]
      [] offset = 33 -> [valid |-> TRUE, read_data |-> mem.sensor_b_reading]
      [] OTHER -> [valid |-> FALSE, read_data |-> 0]

(***************************************************************************)
(* Base 3 (ACTUATOR): the stores of the write branches.                    *)
(***************************************************************************)
\* variant: the LED store keeps the low nibble only, like the heater store
WriteLed_Nibble(mem, data) == [mem EXCEPT !.actuator_a = BitAnd(data, 15)]

WriteLed(mem, data) == [mem EXCEPT !.actuator_a = U8(data)]

WriteFan(mem, data) == [mem EXCEPT !.actuator_b = U8(data)]

WriteHeater(mem, data) == [mem EXCEPT !.actuator_c = BitAnd(data, 15)]

\* variant: the doors store without the mask of line 391
WriteDoors_Unmasked(mem, data) == [mem EXCEPT !.actuator_d = U8(data)]

WriteDoors(mem, data) == [mem EXCEPT !.actuator_d = BitAnd(data, 85)]

ActuatorAccess(mem, offset, rw, data) ==
    CASE offset = 16 ->
           IF rw = 0
           THEN [valid |-> TRUE, read_data |-> mem.actuator_a, mem |-> mem]
           ELSE [valid |-> TRUE, read_data |-> 0, mem |-> WriteLed(mem, data)]
      [] offset = 32 ->
           IF rw = 0
           THEN [valid |-> TRUE, read_data |-> mem.actuator_b, mem |-> mem]
           ELSE [valid |-> TRUE, read_data |-> 0, mem |-> WriteFan(mem, data)]
      [] offset = 48 ->
           IF rw = 0
           THEN [valid |-> TRUE, read_data |-> mem.actuator_c, mem |-> mem]
           ELSE [valid |-> TRUE, read_data |-> 0,
                 mem |-> WriteHeater(mem, data)]
      [] offset = 64 ->
           IF rw = 0
           THEN [valid |-> TRUE, read_data |-> mem.actuator_d, mem |-> mem]
           ELSE [valid |-> TRUE, read_data |-> 0,
                 mem |-> WriteDoors(mem, data)]
      [] OTHER -> [valid |-> FALSE, read_data |-> 0, mem |-> mem]

(***************************************************************************)
(* Base 4 (CONTROL): the stores and side effects of the write branches.    *)
(***************************************************************************)
\* variant: the propagation updates power_state only
Propagate_PowerOnly(mem, data, src, dst) ==
    IF BitAnd(data, src) # 0
    THEN [mem EXCEPT !.power_state = BitOr(@, dst)]
    ELSE [mem EXCEPT !.power_state = BitClear(@, dst)]

\* if (data & src) { cd |= dst; ps |= dst; } else { cd &= ~dst; ps &= ~dst; }
Propagate(mem, data, src, dst) ==
    IF BitAnd(data, src) # 0
    THEN [mem EXCEPT !.connected_device = BitOr(@, dst),
                     !.power_state = BitOr(@, dst)]
    ELSE [mem EXCEPT !.connected_device = BitClear(@, dst),
                     !.power_state = BitClear(@, dst)]

\* variant: the humidity bit is propagated to the status bit of the same
\* position (0x10) instead of 0x04
WritePowerSensors_SameBits(mem, data) ==
    LET m0 == [mem EXCEPT !.power_sensors = BitAnd(data, 17)]
        m1 == Propagate(m0, data, 1, 1)
    IN  Propagate(m1, data, 16, 16)

WritePowerSensors(mem, data) ==
    LET m0 == [mem EXCEPT !.power_sensors = BitAnd(data, 17)]
        m1 == Propagate(m0, data, 1, 1)
    IN  Propagate(m1, data, 16, 4)

\* variant: each actuator bit is propagated to the status bit of the same
\* position (0x01, 0x04, 0x10, 0x40)
WritePowerActuators_SameBits(mem, data) ==
    LET m0 == [mem EXCEPT !.power_actuators = BitAnd(data, 85)]
        m1 == Propagate(m0, data, 1, 1)
        m2 == Propagate(m1, data, 4, 4)
        m3 == Propagate(m2, data, 16, 16)
    IN  Propagate(m3, data, 64, 64)

WritePowerActuators(mem, data) ==
    LET m0 == [mem EXCEPT !.power_actuators = BitAnd(data, 85)]
        m1 == Propagate(m0, data, 1, 16)
        m2 == Propagate(m1, data, 4, 32)
        m3 == Propagate(m2, data, 16, 64)
    IN  Propagate(m3, data, 64, 128)

\* variant: the reset leaves error_state alone
ResetSensor_KeepsError(mem, data, bit, err) ==
    IF BitAnd(data, bit) # 0
    THEN [mem EXCEPT !.reset_sensors = BitClear(@, bit)]
    ELSE mem

\* if (data & bit) { error_state &= ~err; reset_sensors &= ~bit; }
ResetSensor(mem, data, bit, err) ==
    IF BitAnd(data, bit) # 0
    THEN [mem EXCEPT !.error_state = BitClear(@, err),
                     !.reset_sensors = BitClear(@, bit)]
    ELSE mem

WriteResetSensors(mem, data) ==
    LET m0 == [mem EXCEPT !.reset_sensors = BitAnd(data, 17)]
        m1 == ResetSensor(m0, data, 1, 1)
    IN  ResetSensor(m1, data, 16, 4)

\* variant: the reset bit is not cleared again
ResetActuator_NoAutoClear(mem, data, bit, err, reg) ==
    IF BitAnd(data, bit) # 0
    THEN [mem EXCEPT !.error_state = BitClear(@, err),
                     ![reg] = 0]
    ELSE mem

\* if (data & bit) { error_state &= ~err; actuator = 0; reset_actuators &= ~bit; }
ResetActuator(mem, data, bit, err, reg) ==
    IF BitAnd(data, bit) # 0
    THEN [mem EXCEPT !.error_state = BitClear(@, err),
                     ![reg] = 0,
                     !.reset_actuators = BitClear(@, bit)]
    ELSE mem

\* variant: bits 2 and 4 zero each other's actuator
WriteResetActuators_Swapped(mem, data) ==
    LET m0 == [mem EXCEPT !.reset_actuators = BitAnd(data, 85)]
        m1 == ResetActuator(m0, data, 1, 16, "actuator_a")
        m2 == ResetActuator(m1, data, 4, 32, "actuator_c")
        m3 == ResetActuator(m2, data, 16, 64, "actuator_b")
    IN  ResetActuator(m3, data, 64, 128, "actuator_d")

WriteResetActuators(mem, data) ==
    LET m0 == [mem EXCEPT !.reset_actuators = BitAnd(data, 85)]
        m1 == ResetActuator(m0, data, 1, 16, "actuator_a")
        m2 == ResetActuator(m1, data, 4, 32, "actuator_b")
        m3 == ResetActuator(m2, data, 16, 64, "actuator_c")
    IN  ResetActuator(m3, data, 64, 128, "actuator_d")

ControlAccess(mem, offset, rw, data) ==
    CASE offset = 251 ->
           IF rw = 0
           THEN [valid |-> TRUE, read_data |-> mem.power_sensors, mem |-> mem]
           ELSE [valid |-> TRUE, read_data |-> 0,
                 mem |-> WritePowerSensors(mem, data)]
      [] offset = 252 ->
           IF rw = 0
           THEN [valid |-> TRUE, read_data |-> mem.power_actuators,
                 mem |-> mem]
           ELSE [valid |-> TRUE, read_data |-> 0,
                 mem |-> WritePowerActuators(mem, data)]
      [] offset = 253 ->
           IF rw = 0
           THEN [valid |-> TRUE, read_data |-> mem.reset_sensors, mem |-> mem]
           ELSE [valid |-> TRUE, read_data |-> 0,
                 mem |-> WriteResetSensors(mem, data)]
      [] offset = 254 ->
           IF rw = 0
           THEN [valid |-> TRUE, read_data |-> mem.reset_actuators,
                 mem |-> mem]
           ELSE [valid |-> TRUE, read_data |-> 0,
                 mem |-> WriteResetActuators(mem, data)]
      [] OTHER -> [valid |-> FALSE, read_data |-> 0, mem |-> mem]

(***************************************************************************)
(* process_command, lines 253-552.  The result is the memory after the     *)
(* dispatch, the response text, and whether control reached the call of    *)
(* update_sensors at line 549 (the early returns at 257, 265, 283, 323 and *)
(* 354 do not).                                                            *)
(***************************************************************************)
ReadResponse(cmd, read_data) ==
    <<cmd[1], cmd[2], cmd[3], cmd[4]>> \o Hex2(read_data)

\* variant: a write is answered like a read, with read_data in the data field
Respond_AlwaysReadData(cmd, rw, read_data) == ReadResponse(cmd, read_data)

\* lines 537-546
Respond(cmd, rw, read_data) ==
    IF rw = 0 THEN ReadResponse(cmd, read_data) ELSE cmd

\* variant: base 0 is answered with the invalid error frame
ReservedBase_Invalid(mem) ==
    [mem |-> mem, response |-> ERR_INVALID, tick |-> TRUE]

\* lines 291-294: base 0 (RESERVED)
ReservedBase(mem) ==
    [mem |-> mem, response |-> ERR_FORBIDDEN, tick |-> TRUE]

\* variant: a write to base 1 or 2 is answered with the invalid error frame
ReadOnlyWrite_Invalid(mem) ==
    [mem |-> mem, response |-> ERR_INVALID, tick |-> FALSE]

\* variant: a write to base 1 or 2 falls through to update_sensors
ReadOnlyWrite_Ticks(mem) ==
    [mem |-> mem, response |-> ERR_FORBIDDEN, tick |-> TRUE]

\* lines 320-324 and 351-355: a write to base 1 or 2 returns at once
ReadOnlyWrite(mem) ==
    [mem |-> mem, response |-> ERR_FORBIDDEN, tick |-> FALSE]

\* the switch on base, lines 290-535, for a frame with rw in {0, 1}
Dispatch(mem, cmd, base, offset, rw, data) ==
    CASE base = 0 -> ReservedBase(mem)
      [] base = 1 ->
           IF rw = 0
           THEN LET r == MainRead(mem, offset)
                IN  [mem |-> mem,
                     response |-> IF r.valid
                                  THEN Respond(cmd, rw, r.read_data)
                                  ELSE ERR_INVALID,
                     tick |-> TRUE]
           ELSE ReadOnlyWrite(mem)
      [] base = 2 ->
           IF rw = 0
           THEN LET r == SensorRead(mem, offset)
                IN  [mem |-> mem,
                     response |-> IF r.valid
                                  THEN Respond(cmd, rw, r.read_data)
                                  ELSE ERR_INVALID,
                     tick |-> TRUE]
           ELSE ReadOnlyWrite(mem)
      [] base = 3 ->
           LET r == ActuatorAccess(mem, offset, rw, data)
           IN  [mem |-> r.mem,
                response |-> IF r.valid
                             THEN Respond(cmd, rw, r.read_data)
                             ELSE ERR_INVALID,
                tick |-> TRUE]
      [] base = 4 ->
           LET r == ControlAccess(mem, offset, rw, data)
           IN  [mem |-> r.mem,
                response |-> IF r.valid
                             THEN Respond(cmd, rw, r.read_data)
                             ELSE ERR_INVALID,
                tick |-> TRUE]
      [] OTHER ->
           [mem |-> mem, response |-> ERR_INVALID, tick |-> TRUE]

process_command(mem, cmd) ==
    IF ~ValidFormat(cmd)
    THEN [mem |-> mem, response |-> ERR_FORBIDDEN, tick |-> FALSE]
    ELSE IF ~RwValid(ParseRw(cmd))
    THEN [mem |-> mem, response |-> ERR_INVALID, tick |-> FALSE]
    ELSE Dispatch(mem, cmd, ParseBase(cmd), ParseOffset(cmd),
                  ParseRw(cmd), ParseData(cmd))

(***************************************************************************)
(* update_sensors, lines 566-628.  draw holds the outcomes of the calls of *)
(* rand(): t5, h5 = rand() % 5, t3, h3 = rand() % 3 and te, he = whether   *)
(* rand() % 100 == 0.  tb and hb are the static temp_base and humid_base.  *)
(* The result also names the error_state bits the tick raised.             *)
(***************************************************************************)
HeaterOn(mem) == mem.actuator_c > 0 /\ BitAnd(mem.power_state, 64) # 0

FanFast(mem) == mem.actuator_b > 128 /\ BitAnd(mem.power_state, 32) # 0

\* variant: the temperature is simulated whether or not the sensor is powered
UpdateTemperature_Ungated(mem, tb, draw) ==
    LET base == U8(tb + (draw.t5 - 2))
    IN  [mem |-> [mem EXCEPT !.sensor_a_reading = U8(base + draw.t3)],
         base |-> base,
         raised |-> 0]

\* lines 571-598
UpdateTemperature(mem, tb, draw) ==
    IF BitAnd(mem.power_state, 1) # 0
    THEN LET temp_change == (draw.t5 - 2)
                            + (IF HeaterOn(mem) THEN mem.actuator_c \div 2
                               ELSE 0)
                            - (IF FanFast(mem) THEN 1 ELSE 0)
             base == U8(tb + temp_change)
         IN  [mem |-> [mem EXCEPT
                          !.sensor_a_reading = U8(base + draw.t3),
                          !.error_state = IF draw.te THEN BitOr(@, 1) ELSE @],
              base |-> base,
              raised |-> IF draw.te THEN 1 ELSE 0]
    ELSE [mem |-> mem, base |-> tb, raised |-> 0]

\* lines 600-627
UpdateHumidity(mem, hb, draw) ==
    IF BitAnd(mem.power_state, 4) # 0
    THEN LET humid_change == (draw.h5 - 2)
                             - (IF FanFast(mem) THEN 1 ELSE 0)
                             - (IF HeaterOn(mem) THEN mem.actuator_c \div 3
                                ELSE 0)
             base == U8(hb + humid_change)
         IN  [mem |-> [mem EXCEPT
                          !.sensor_b_reading = U8(base + draw.h3),
                          !.error_state = IF draw.he THEN BitOr(@, 4) ELSE @],
              base |-> base,
              raised |-> IF draw.he THEN 4 ELSE 0]
    ELSE [mem |-> mem, base |-> hb, raised |-> 0]

update_sensors(mem, tb, hb, draw) ==
    LET t == UpdateTemperature(mem, tb, draw)
        h == UpdateHumidity(t.mem, hb, draw)
    IN  [mem |-> h.mem, temp_base |-> t.base, humid_base |-> h.base,
         raised |-> t.raised + h.raised]

\* the text of a frame, as protocol_format_message writes it
Frame(base, offset, rw, data) ==
    <<HexUpper[base + 1]>> \o Hex2(offset) \o <<HexUpper[rw + 1]>>
        \o Hex2(data)

(***************************************************************************)
(* The protocol helpers of semi_vibe_protocol.c, as the driver uses them.  *)
(***************************************************************************)
\* protocol_parse_message: six hex characters, split into the four fields;
\* the error field of the message is set to 0
protocol_parse_message(text) ==
    IF ValidFormat(text)
    THEN [ok |-> TRUE, base |-> ParseBase(text), offset |-> ParseOffset(text),
          rw |-> ParseRw(text), data |-> ParseData(text), error |-> 0]
    ELSE [ok |-> FALSE, base |-> 0, offset |-> 0, rw |-> 0, data |-> 0,
          error |-> 0]

protocol_is_error(message) == message.error > 0

\* variant: the digits are written with "%x"
protocol_format_message_Lower(message) ==
    IF message.error > 0
    THEN <<HexLower[message.error + 1], "f", "f", "f", "f", "f">>
    ELSE <<HexLower[message.base + 1],
           HexLower[(message.offset \div 16) + 1],
           HexLower[(message.offset % 16) + 1],
           HexLower[message.rw + 1],
           HexLower[(message.data \div 16) + 1],
           HexLower[(message.data % 16) + 1]>>

\* protocol_format_message, lines 58-77: "%1X" and "FFFFF" for a message
\* that carries an error, "%1X%02X%1X%02X" for any other
protocol_format_message(message) ==
    IF message.error > 0
    THEN <<HexUpper[message.error + 1], "F", "F", "F", "F", "F">>
    ELSE Frame(message.base, message.offset, message.rw, message.data)

\* protocol_create_bitmask: flags is the sequence of the <<value,
\* bit_position>> pairs of the argument list
RECURSIVE protocol_create_bitmask(_)
protocol_create_bitmask(flags) ==
    IF flags = <<>> THEN 0
    ELSE BitOr(IF Head(flags)[1] THEN 2 ^ Head(flags)[2] ELSE 0,
               protocol_create_bitmask(Tail(flags)))

(***************************************************************************)
(* Names of semi_vibe_protocol.h, semi_vibe_driver.h and semi_vibe_comm.h. *)
(***************************************************************************)
BASE_RESERVED == 0
BASE_MAIN == 1
BASE_SENSOR == 2
BASE_ACTUATOR == 3
BASE_CONTROL == 4

OFFSET_POWER_STATE == 2
OFFSET_ERROR_STATE == 3
OFFSET_LED == 16
OFFSET_FAN == 32
OFFSET_HEATER == 48
OFFSET_DOORS == 64
OFFSET_POWER_SENSORS == 251
OFFSET_POWER_ACTUATORS == 252
OFFSET_RESET_SENSORS == 253
OFFSET_RESET_ACTUATORS == 254

MASK_TEMP_SENSOR == 1
MASK_HUMID_SENSOR == 16
MASK_LED == 1
MASK_FAN == 4
MASK_HEATER == 16
MASK_DOORS == 64
MASK_HEATER_VALUE == 15
MASK_DOORS_VALUE == 85

BIT_TEMP_SENSOR == 0
BIT_HUMID_SENSOR == 4
BIT_LED == 0
BIT_FAN == 2
BIT_HEATER == 4
BIT_DOORS == 6

COMPONENT_TEMPERATURE == 0
COMPONENT_HUMIDITY == 1
COMPONENT_LED == 2
COMPONENT_FAN == 3
COMPONENT_HEATER == 4
COMPONENT_DOORS == 5

DOOR_1 == 1
DOOR_4 == 4
DOOR_CLOSED == 0
DOOR_OPEN == 1

DRIVER_ERROR_NONE == 0
DRIVER_ERROR_CONNECTION_FAILED == 3
DRIVER_ERROR_NOT_CONNECTED == 4
DRIVER_ERROR_INVALID_PARAMETER == 5
DRIVER_ERROR_COMMUNICATION_FAILED == 6
DRIVER_ERROR_PROTOCOL_ERROR == 7
DRIVER_ERROR_DEVICE_ERROR == 8
DRIVER_ERROR_TIMEOUT == 9

COMM_ERROR_NONE == 0
COMM_ERROR_TIMEOUT == 1
COMM_ERROR_SEND_FAILED == 2
COMM_ERROR_RECEIVE_FAILED == 3

DEFAULT_TIMEOUT_MS == 5000

\* semi_vibe_driver.c, lines 22-24
DRIVER_ERROR_COMMUNICATION == DRIVER_ERROR_COMMUNICATION_FAILED
DRIVER_ERROR_PROTOCOL == DRIVER_ERROR_PROTOCOL_ERROR
DRIVER_ERROR_VERIFICATION == DRIVER_ERROR_DEVICE_ERROR

(***************************************************************************)
(* The driver's session with the device.  A session s holds the device at  *)
(* the other end of the socket (mem, temp_base, humid_base), the handle's  *)
(* last_error, and the exchanges of the current call (wire).  An exchange  *)
(* is scripted by ch = [outcome, draw]: outcome "ok" delivers the device's *)
(* response; outcome "timeout" is a recv() that returns nothing although   *)
(* the device has processed the request, and that response is lost.        *)
(***************************************************************************)
set_last_error(s, error_code) == [s EXCEPT !.last_error = error_code]

\* F applied to the value of v, with v evaluated once
Bind(v, F(_)) == CHOOSE y \in {F(x) : x \in {v}} : TRUE

\* handle_client, lines 219-241: the request through process_command
DeviceServe(s, message, draw) ==
    Bind(process_command(s.mem, message), LAMBDA p :
    Bind(update_sensors(p.mem, s.temp_base, s.humid_base, draw), LAMBDA u :
        [s |-> IF p.tick
               THEN [s EXCEPT !.mem = u.mem, !.temp_base = u.temp_base,
                              !.humid_base = u.humid_base,
                              !.ticked = TRUE, !.raised = u.raised]
               ELSE [s EXCEPT !.mem = p.mem, !.ticked = FALSE, !.raised = 0],
         response |-> p.response]))

\* comm_send_receive
comm_send_receive(s, message, ch) ==
    Bind(DeviceServe(s, message, ch.draw), LAMBDA d :
        LET delivered == ch.outcome = "ok"
            reply == IF delivered THEN d.response ELSE <<>>
        IN  [s |-> [d.s EXCEPT !.wire = Append(@, [request |-> message,
                                                     outcome |-> ch.outcome,
                                                     response |-> reply])],
             ok |-> delivered,
             response |-> reply])

\* validate_register_access
validate_register_access(base, offset, is_write) ==
    IF base = BASE_RESERVED THEN FALSE
    ELSE IF is_write /\ (base = BASE_MAIN \/ base = BASE_SENSOR) THEN FALSE
    ELSE IF base = BASE_ACTUATOR THEN TRUE
    ELSE IF base = BASE_CONTROL
    THEN offset \in {OFFSET_POWER_SENSORS, OFFSET_POWER_ACTUATORS,
                     OFFSET_RESET_SENSORS, OFFSET_RESET_ACTUATORS}
    ELSE TRUE

\* format_read_command and format_write_command
format_read_command(base, offset) == Frame(base, offset, 0, 0)

format_write_command(base, offset, value) == Frame(base, offset, 1, value)

\* parse_response: the data byte of a response of six hex characters
parse_response(text) ==
    IF Len(text) < 6 THEN [ok |-> FALSE, value |-> 0]
    ELSE Bind(protocol_parse_message(text), LAMBDA message :
             IF ~message.ok THEN [ok |-> FALSE, value |-> 0]
             ELSE IF protocol_is_error(message)
             THEN [ok |-> FALSE, value |-> 0]
             ELSE [ok |-> TRUE, value |-> message.data])

\* read_register, lines 1269-1278: what is made of a received response
ReadReply(s, text) ==
    Bind(parse_response(text), LAMBDA r :
        IF ~r.ok
        THEN [s |-> set_last_error(s, DRIVER_ERROR_PROTOCOL), ok |-> FALSE,
              value |-> 0]
        ELSE [s |-> s, ok |-> TRUE, value |-> r.value])

\* write_register, lines 1335-1350: what is made of a received response
WriteReply(s, value, text) ==
    Bind(parse_response(text), LAMBDA r :
        IF ~r.ok
        THEN [s |-> set_last_error(s, DRIVER_ERROR_PROTOCOL), ok |-> FALSE]
        ELSE IF r.value # value
        THEN [s |-> set_last_error(s, DRIVER_ERROR_VERIFICATION),
              ok |-> FALSE]
        ELSE [s |-> s, ok |-> TRUE])

read_register(s, base, offset, ch) ==
    IF ~validate_register_access(base, offset, FALSE)
    THEN [s |-> set_last_error(s, DRIVER_ERROR_INVALID_PARAMETER),
          ok |-> FALSE, value |-> 0]
    ELSE Bind(comm_send_receive(s, format_read_command(base, offset), ch),
              LAMBDA x :
                  IF ~x.ok
                  THEN [s |-> set_last_error(x.s, DRIVER_ERROR_TIMEOUT),
                        ok |-> FALSE, value |-> 0]
                  ELSE ReadReply(x.s, x.response))

write_register(s, base, offset, value, ch) ==
    IF ~validate_register_access(base, offset, TRUE)
    THEN [s |-> set_last_error(s, DRIVER_ERROR_INVALID_PARAMETER),
          ok |-> FALSE]
    ELSE Bind(comm_send_receive(s, format_write_command(base, offset, value),
                                ch),
              LAMBDA x :
                  IF ~x.ok
                  THEN [s |-> set_last_error(x.s, DRIVER_ERROR_TIMEOUT),
                        ok |-> FALSE]
                  ELSE WriteReply(x.s, value, x.response))

(***************************************************************************)
(* The calls of the driver API on a connected handle.  script[i] scripts   *)
(* the i-th exchange of the call.  The result is the session after the     *)
(* call, the returned bool, *error_code and the out-parameter.             *)
(***************************************************************************)
\* *error_code = result ? DRIVER_ERROR_NONE : driver->last_error
Return(s, ok, value) ==
    [s |-> s, ok |-> ok,
     error_code |-> IF ok THEN DRIVER_ERROR_NONE ELSE s.last_error,
     value |-> value]

\* the return of lines 942-951, 1654-1663 and 1788-1797
InvalidParameter(s) ==
    [s |-> set_last_error(s, DRIVER_ERROR_INVALID_PARAMETER),
     ok |-> FALSE, error_code |-> DRIVER_ERROR_INVALID_PARAMETER,
     value |-> 0]

driver_set_led(s, value, script) ==
    Bind(write_register(s, BASE_ACTUATOR, OFFSET_LED, value, script[1]),
         LAMBDA w : Return(w.s, w.ok, 0))

driver_get_led(s, script) ==
    Bind(read_register(s, BASE_ACTUATOR, OFFSET_LED, script[1]),
         LAMBDA r : Return(r.s, r.ok, r.value))

driver_set_fan(s, value, script) ==
    Bind(write_register(s, BASE_ACTUATOR, OFFSET_FAN, value, script[1]),
         LAMBDA w : Return(w.s, w.ok, 0))

driver_get_fan(s, script) ==
    Bind(read_register(s, BASE_ACTUATOR, OFFSET_FAN, script[1]),
         LAMBDA r : Return(r.s, r.ok, r.value))

\* variant: the new nibble is or-ed into the register without clearing the
\* old one
HeaterValue_NoClear(current_value, value) ==
    BitOr(current_value, BitAnd(value, MASK_HEATER_VALUE))

\* lines 819 and 836: (current_value & ~MASK_HEATER_VALUE) | heater_value
HeaterValue(current_value, value) ==
    BitOr(BitClear(current_value, MASK_HEATER_VALUE),
          BitAnd(value, MASK_HEATER_VALUE))

driver_set_heater(s, value, script) ==
    Bind(read_register(s, BASE_ACTUATOR, OFFSET_HEATER, script[1]),
         LAMBDA r :
             IF ~r.ok THEN Return(r.s, FALSE, 0)
             ELSE Bind(write_register(r.s, BASE_ACTUATOR, OFFSET_HEATER,
                                      HeaterValue(r.value, value),
                                      script[2]),
                       LAMBDA w : Return(w.s, w.ok, 0)))

driver_get_heater(s, script) ==
    Bind(read_register(s, BASE_ACTUATOR, OFFSET_HEATER, script[1]),
         LAMBDA r : Return(r.s, r.ok, BitAnd(r.value, MASK_HEATER_VALUE)))

\* int bit_position = (door_id - 1) * 2
DoorBit(door_id) == (door_id - 1) * 2

\* lines 1004-1020: the read-back after a write that succeeded
VerifyDoor(s, door_id, state, ch) ==
    Bind(read_register(s, BASE_ACTUATOR, OFFSET_DOORS, ch), LAMBDA v :
        LET expected_bit_state == state = DOOR_OPEN
            actual_bit_state == Bit(v.value, DoorBit(door_id)) # 0
        IN  IF v.ok
            THEN IF expected_bit_state # actual_bit_state
                 THEN [s |-> set_last_error(v.s, DRIVER_ERROR_DEVICE_ERROR),
                       ok |-> FALSE]
                 ELSE [s |-> v.s, ok |-> TRUE]
            ELSE [s |-> v.s, ok |-> TRUE])

\* variant: the byte written holds the bit of the requested door only
DoorValue_Clobbers(current_value, door_id, state) ==
    IF state = DOOR_OPEN THEN 2 ^ DoorBit(door_id) ELSE 0

\* lines 986-999
DoorValue(current_value, door_id, state) ==
    LET new_value == IF state = DOOR_OPEN
                     THEN BitOr(current_value, 2 ^ DoorBit(door_id))
                     ELSE BitClear(current_value, 2 ^ DoorBit(door_id))
    IN  BitOr(BitClear(current_value, MASK_DOORS_VALUE),
              BitAnd(new_value, MASK_DOORS_VALUE))

driver_set_door(s, door_id, state, script) ==
    IF door_id < DOOR_1 \/ door_id > DOOR_4
       \/ (state # DOOR_OPEN /\ state # DOOR_CLOSED)
    THEN InvalidParameter(s)
    ELSE Bind(read_register(s, BASE_ACTUATOR, OFFSET_DOORS, script[1]),
              LAMBDA r :
                  IF ~r.ok THEN Return(r.s, FALSE, 0)
                  ELSE Bind(write_register(r.s, BASE_ACTUATOR, OFFSET_DOORS,
                                           DoorValue(r.value, door_id, state),
                                           script[2]),
                            LAMBDA w :
                                IF ~w.ok THEN Return(w.s, FALSE, 0)
                                ELSE Bind(VerifyDoor(w.s, door_id, state,
                                                     script[3]),
                                          LAMBDA v : Return(v.s, v.ok, 0))))

\* variant: a set bit is reported as a closed door
DoorState_Inverted(door_value, door_id) ==
    IF Bit(door_value, DoorBit(door_id)) # 0 THEN DOOR_CLOSED ELSE DOOR_OPEN

\* line 1089: (door_value & (1 << bit_position)) ? DOOR_OPEN : DOOR_CLOSED
DoorState(door_value, door_id) ==
    IF Bit(door_value, DoorBit(door_id)) # 0 THEN DOOR_OPEN ELSE DOOR_CLOSED

driver_get_door_state(s, door_id, script) ==
    IF door_id < DOOR_1 \/ door_id > DOOR_4
    THEN InvalidParameter(s)
    ELSE Bind(read_register(s, BASE_ACTUATOR, OFFSET_DOORS, script[1]),
              LAMBDA r : Return(r.s, r.ok, DoorState(r.value, door_id)))

IsSensor(component_type) ==
    component_type = COMPONENT_TEMPERATURE
    \/ component_type = COMPONENT_HUMIDITY

\* variant: the byte written holds the bit of the requested component only
PowerValue_OnlyRequested(current_power_state, component_type, powered) ==
    LET on(c) == component_type = c /\ powered
    IN  IF IsSensor(component_type)
        THEN protocol_create_bitmask(
                 << <<on(COMPONENT_TEMPERATURE), BIT_TEMP_SENSOR>>,
                    <<on(COMPONENT_HUMIDITY), BIT_HUMID_SENSOR>> >>)
        ELSE protocol_create_bitmask(
                 << <<on(COMPONENT_LED), BIT_LED>>,
                    <<on(COMPONENT_FAN), BIT_FAN>>,
                    <<on(COMPONENT_HEATER), BIT_HEATER>>,
                    <<on(COMPONENT_DOORS), BIT_DOORS>> >>)

\* lines 1683-1697 and 1716-1739: the byte written for one component
PowerValue(current_power_state, component_type, powered) ==
    LET on(mask, c) == IF component_type = c THEN powered
                       ELSE BitAnd(current_power_state, mask) # 0
    IN  IF IsSensor(component_type)
        THEN protocol_create_bitmask(
                 << <<on(MASK_TEMP_SENSOR, COMPONENT_TEMPERATURE),
                      BIT_TEMP_SENSOR>>,
                    <<on(MASK_HUMID_SENSOR, COMPONENT_HUMIDITY),
                      BIT_HUMID_SENSOR>> >>)
        ELSE protocol_create_bitmask(
                 << <<on(MASK_LED, COMPONENT_LED), BIT_LED>>,
                    <<on(MASK_FAN, COMPONENT_FAN), BIT_FAN>>,
                    <<on(MASK_HEATER, COMPONENT_HEATER), BIT_HEATER>>,
                    <<on(MASK_DOORS, COMPONENT_DOORS), BIT_DOORS>> >>)

driver_set_power_state(s, component_type, powered, script) ==
    IF component_type < COMPONENT_TEMPERATURE
       \/ component_type > COMPONENT_DOORS
    THEN InvalidParameter(s)
    ELSE LET offset == IF IsSensor(component_type)
                       THEN OFFSET_POWER_SENSORS
                       ELSE OFFSET_POWER_ACTUATORS
         IN  Bind(read_register(s, BASE_CONTROL, offset, script[1]),
                  LAMBDA r :
                      IF ~r.ok THEN Return(r.s, FALSE, 0)
                      ELSE Bind(write_register(
                                    r.s, BASE_CONTROL, offset,
                                    PowerValue(r.value, component_type,
                                               powered),
                                    script[2]),
                                LAMBDA w : Return(w.s, w.ok, 0)))

\* the switch of lines 1406-1426 and 1495-1515: the mask of a component
ComponentMask(component_type) ==
    CASE component_type = COMPONENT_TEMPERATURE -> MASK_TEMP_SENSOR
      [] component_type = COMPONENT_HUMIDITY -> MASK_HUMID_SENSOR
      [] component_type = COMPONENT_LED -> MASK_LED
      [] component_type = COMPONENT_FAN -> MASK_FAN
      [] component_type = COMPONENT_HEATER -> MASK_HEATER
      [] component_type = COMPONENT_DOORS -> MASK_DOORS

\* *flag = (state & mask) != 0 of the register read at MAIN/offset; value
\* is 1 for true and 0 for false
MainFlag(s, offset, component_type, script) ==
    IF component_type < COMPONENT_TEMPERATURE
       \/ component_type > COMPONENT_DOORS
    THEN InvalidParameter(s)
    ELSE Bind(read_register(s, BASE_MAIN, offset, script[1]),
              LAMBDA r :
                  Return(r.s, r.ok,
                         IF r.ok /\ BitAnd(r.value,
                                           ComponentMask(component_type)) # 0
                         THEN 1 ELSE 0))

\* lines 1362-1440
driver_get_power_state(s, component_type, script) ==
    MainFlag(s, OFFSET_POWER_STATE, component_type, script)

\* lines 1451-1529
driver_get_error_state(s, component_type, script) ==
    MainFlag(s, OFFSET_ERROR_STATE, component_type, script)

\* variant: the reset bits read from the register are written back with
\* the requested one
ResetValue_KeepsRead(current_reset_state, component_type) ==
    PowerValue(current_reset_state, component_type, TRUE)

\* lines 1817-1833 and 1852-1890: the byte written for one component
ResetValue(current_reset_state, component_type) ==
    LET only(c) == component_type = c
    IN  IF IsSensor(component_type)
        THEN protocol_create_bitmask(
                 << <<only(COMPONENT_TEMPERATURE), BIT_TEMP_SENSOR>>,
                    <<only(COMPONENT_HUMIDITY), BIT_HUMID_SENSOR>> >>)
        ELSE protocol_create_bitmask(
                 << <<only(COMPONENT_LED), BIT_LED>>,
                    <<only(COMPONENT_FAN), BIT_FAN>>,
                    <<only(COMPONENT_HEATER), BIT_HEATER>>,
                    <<only(COMPONENT_DOORS), BIT_DOORS>> >>)

driver_reset_component(s, component_type, script) ==
    IF component_type < COMPONENT_TEMPERATURE
       \/ component_type > COMPONENT_DOORS
    THEN InvalidParameter(s)
    ELSE LET offset == IF IsSensor(component_type)
                       THEN OFFSET_RESET_SENSORS
                       ELSE OFFSET_RESET_ACTUATORS
         IN  Bind(read_register(s, BASE_CONTROL, offset, script[1]),
                  LAMBDA r :
                      IF ~r.ok THEN Return(r.s, FALSE, 0)
                      ELSE Bind(write_register(
                                    r.s, BASE_CONTROL, offset,
                                    ResetValue(r.value, component_type),
                                    script[2]),
                                LAMBDA w : Return(w.s, w.ok, 0)))

(***************************************************************************)
(* The communication layer, semi_vibe_comm.c, call by call.  A payload is  *)
(* the bytes one recv() returns, a sequence of characters in which NUL     *)
(* stands for the byte 0.  A CommContext is [connected, socket,            *)
(* timeout_ms, last_error]; socket is INVALID_SOCKET or the handle of an   *)
(* open socket.                                                            *)
(***************************************************************************)
NUL == "NUL"

INVALID_SOCKET == "INVALID_SOCKET"

ACK == <<"A", "C", "K">>

EXIT == <<"e", "x", "i", "t">>

\* the C string a buffer holds: its bytes before the first NUL
CStr(buffer) ==
    IF \E i \in 1..Len(buffer) : buffer[i] = NUL
    THEN SubSeq(buffer, 1,
                (CHOOSE i \in 1..Len(buffer) :
                    /\ buffer[i] = NUL
                    /\ \A j \in 1..(i - 1) : buffer[j] # NUL) - 1)
    ELSE buffer

\* comm_init, lines 427-455
comm_init ==
    [connected |-> FALSE, socket |-> INVALID_SOCKET,
     timeout_ms |-> DEFAULT_TIMEOUT_MS, last_error |-> COMM_ERROR_NONE]

\* comm_set_timeout, lines 391-417; the setsockopt calls succeed
comm_set_timeout(context, timeout_ms) ==
    [context EXCEPT !.timeout_ms = timeout_ms]

\* comm_connect, lines 578-594: bytes_received > 0 and
\* strcmp(buffer, "ACK") == 0; buffer is <<>> when recv returned nothing
AckReceived(buffer) ==
    Len(buffer) > 0 /\ CStr(buffer) = ACK

\* comm_connect, lines 575-599, after connect() succeeded on the socket:
\* the context after the recv that returned buffer, and the sockets closed
comm_connect(context, buffer) ==
    IF AckReceived(buffer)
    THEN [context |-> [context EXCEPT !.connected = TRUE], ok |-> TRUE,
          closed |-> {}]
    ELSE [context |-> [context EXCEPT !.socket = INVALID_SOCKET],
          ok |-> FALSE, closed |-> {context.socket}]

\* variant: a failed send of exit ends the call
comm_disconnect_GivesUp(context, send_exit, send_ok) ==
    IF ~context.connected
    THEN [context |-> context, ok |-> TRUE, sent |-> <<>>, closed |-> {}]
    ELSE IF send_exit /\ ~send_ok
    THEN [context |-> context, ok |-> FALSE, sent |-> <<>>, closed |-> {}]
    ELSE [context |-> [context EXCEPT !.socket = INVALID_SOCKET,
                                      !.connected = FALSE],
          ok |-> TRUE,
          sent |-> IF send_exit THEN <<EXIT>> ELSE <<>>,
          closed |-> {context.socket} \ {INVALID_SOCKET}]

\* comm_disconnect, lines 608-659; send_ok is the outcome of the send of
\* exit.  The result: the context, the returned bool, the payloads that
\* went out and the sockets closed
comm_disconnect(context, send_exit, send_ok) ==
    IF ~context.connected
    THEN [context |-> context, ok |-> TRUE, sent |-> <<>>, closed |-> {}]
    ELSE [context |-> [context EXCEPT !.socket = INVALID_SOCKET,
                                      !.connected = FALSE],
          ok |-> ~(send_exit /\ ~send_ok),
          sent |-> IF send_exit /\ send_ok THEN <<EXIT>> ELSE <<>>,
          closed |-> {context.socket} \ {INVALID_SOCKET}]

\* comm_send_receive, lines 705-722: the recv of a blocking socket whose
\* peer has sent nothing.  SO_RCVTIMEO is timeout_ms, and 0 is no timeout:
\* the recv returns when the peer has closed the stream (RECEIVE_FAILED) or
\* when the timeout expires (TIMEOUT), and not at all otherwise
RecvReturnsEmpty(context, peer_open) ==
    ~peer_open \/ context.timeout_ms > 0

RecvError(context, peer_open) ==
    IF peer_open THEN COMM_ERROR_TIMEOUT ELSE COMM_ERROR_RECEIVE_FAILED

\* read_register and write_register, lines 1253-1267 and 1319-1333
CommFailure(comm_error) ==
    IF comm_error = COMM_ERROR_TIMEOUT THEN DRIVER_ERROR_TIMEOUT
    ELSE DRIVER_ERROR_COMMUNICATION

\* the bytes a recv returns when several payloads have arrived: all of them
RECURSIVE Received(_)
Received(payloads) ==
    IF payloads = <<>> THEN <<>>
    ELSE Head(payloads) \o Received(Tail(payloads))

(***************************************************************************)
(* Inputs of the exploration.                                              *)
(***************************************************************************)
\* the pairs of values (uint8_t)rand() of lines 60-61 that are explored
InitReadings == {<<0, 255>>, <<255, 0>>}

\* the outcomes of the rand() calls of one tick that are explored: a tick
\* that leaves the bases where they are and raises no error, and a tick that
\* moves both bases and raises both errors
RandDraws ==
    { [t5 |-> 2, t3 |-> 0, te |-> FALSE, h5 |-> 2, h3 |-> 0, he |-> FALSE],
      [t5 |-> 4, t3 |-> 2, te |-> TRUE, h5 |-> 0, h3 |-> 1, he |-> TRUE] }

\* the accepted writes explored: per register, data with single maskable
\* bits, with the whole mask, and with bits outside the mask
WriteFrames ==
    { Frame(3, 16, 1, d) : d \in {1, 255} }
    \cup { Frame(3, 32, 1, d) : d \in {129} }
    \cup { Frame(3, 48, 1, d) : d \in {5, 16, 255} }
    \cup { Frame(3, 64, 1, d) : d \in {1, 4, 170, 255} }
    \cup { Frame(4, 251, 1, d) : d \in {0, 1, 16, 255} }
    \cup { Frame(4, 252, 1, d) : d \in {0, 1, 84, 170, 255} }
    \cup { Frame(4, 253, 1, d) : d \in {1, 16, 255} }
    \cup { Frame(4, 254, 1, d) : d \in {0, 1, 4, 16, 64, 255} }

ReadFrames ==
    { Frame(r[1], r[2], 0, 0) :
        r \in { <<0, 0>>, <<1, 0>>, <<1, 1>>, <<1, 2>>, <<1, 3>>, <<1, 4>>,
                <<2, 17>>, <<2, 33>>, <<2, 34>>,
                <<3, 16>>, <<3, 48>>, <<3, 64>>, <<3, 80>>,
                <<4, 251>>, <<4, 252>>, <<4, 253>>, <<4, 254>>, <<4, 255>>,
                <<5, 0>> } }

\* writes the interpreter answers with an error frame
RejectedWriteFrames ==
    { Frame(r[1], r[2], 1, r[3]) :
        r \in { <<0, 0, 255>>, <<1, 0, 0>>, <<1, 3, 0>>, <<1, 3, 255>>,
                <<1, 4, 255>>, <<2, 17, 255>>, <<2, 34, 0>>,
                <<3, 80, 255>>, <<4, 255, 255>>, <<5, 0, 255>> } }

\* frames whose rw digit is not 0 or 1
BadRwFrames ==
    { Frame(r[1], r[2], r[3], 255) :
        r \in { <<0, 0, 2>>, <<0, 0, 15>>, <<3, 16, 2>>, <<4, 253, 15>> } }

\* frames written with lower-case digits, and a read with a non-zero data byte
OtherFrames ==
    { <<"4", "f", "b", "1", "1", "0">>, <<"3", "1", "0", "1", "a", "a">>,
      <<"1", "0", "0", "a", "0", "0">>, <<"1", "0", "2", "0", "F", "F">> }

\* payloads that are not six hex characters
Malformed ==
    { <<>>, <<"e", "x", "i", "t">>,
      <<"1", "0", "0", "0", "0">>, <<"1", "0", "0", "0", "0", "0", "0">>,
      <<"4", "F", "B", "1", " ", "1">> }

\* number of calls of the driver API in one session
MaxCalls == 2

\* the arguments the driver API accepts
DoorIds == DOOR_1..DOOR_4
DoorStates == {DOOR_CLOSED, DOOR_OPEN}
Components == COMPONENT_TEMPERATURE..COMPONENT_DOORS

\* the arguments of the calls of a session that are explored
LedValues == {255}
FanValues == {129}
HeaterValues == {5, 16}
CalledDoors == {2, DOOR_4}
CalledComponents == {COMPONENT_HUMIDITY, COMPONENT_FAN, COMPONENT_HEATER}

\* the requests of read_register and write_register that are explored
RegisterRequests ==
    { [op |-> "write_register", base |-> r[1], offset |-> r[2], id |-> 0,
       value |-> r[3]] :
        r \in { <<BASE_ACTUATOR, OFFSET_LED, 5>>,
                <<BASE_ACTUATOR, OFFSET_LED, 255>>,
                <<BASE_ACTUATOR, OFFSET_DOORS, 85>>,
                <<BASE_CONTROL, OFFSET_POWER_SENSORS, 17>> } }
    \cup
    { [op |-> "read_register", base |-> r[1], offset |-> r[2], id |-> 0,
       value |-> 0] :
        r \in { <<BASE_ACTUATOR, OFFSET_LED>>, <<BASE_SENSOR, 17>>,
                <<BASE_CONTROL, OFFSET_RESET_SENSORS>> } }

\* the texts a peer answers with: the three error frames, echoes of the
\* requests, frames that differ from a request in one field, and texts that
\* are no frame
PeerFrames ==
    { ERR_FORBIDDEN, ERR_INVALID, ERR_GENERAL }
    \cup { Frame(r[1], r[2], r[3], r[4]) :
             r \in { <<3, 16, 1, 5>>, <<3, 16, 1, 255>>, <<3, 64, 1, 85>>,
                     <<4, 251, 1, 17>>, <<3, 16, 0, 5>>, <<3, 32, 1, 5>>,
                     <<2, 16, 1, 5>>, <<3, 16, 1, 4>>, <<3, 16, 0, 0>>,
                     <<2, 17, 0, 128>>, <<4, 253, 0, 0>> } }
    \cup { <<>>, <<"A", "C", "K">>, <<"3", "1", "0", "1", "f", "f">> }

\* the rand() outcomes of the ticks that run during a driver call
DriverDraws ==
    { [t5 |-> 4, t3 |-> 2, te |-> TRUE, h5 |-> 0, h3 |-> 1, he |-> TRUE] }

\* the scripts of a call of up to n exchanges: every exchange is delivered,
\* or the f-th one times out
Scripts(n) ==
    { [i \in 1..n |-> [outcome |-> IF i = f THEN "timeout" ELSE "ok",
                       draw |-> d]] : f \in 0..n, d \in DriverDraws }

\* the scripts of a call of n exchanges that are all delivered
Delivered(n) ==
    [i \in 1..n |-> [outcome |-> "ok",
                     draw |-> CHOOSE d \in DriverDraws : TRUE]]

\* number of calls of the driver API on a handle that connects itself
MaxOps == 4

\* the arguments of driver_set_timeout that are explored
Timeouts == {0, DEFAULT_TIMEOUT_MS}

\* what a peer sends when it has accepted the stream
Greetings ==
    { ACK, ACK \o <<NUL, "X">>, ACK \o <<"K">>, <<"A", "C">>,
      <<"N", "A", "K">>, <<"a", "c", "k">> }

\* the calls on registers that are explored
ConnRequests ==
    { [op |-> "get_led", base |-> BASE_ACTUATOR, offset |-> OFFSET_LED,
       id |-> 0, value |-> 0],
      [op |-> "set_led", base |-> BASE_ACTUATOR, offset |-> OFFSET_LED,
       id |-> 0, value |-> 255],
      [op |-> "get_fan", base |-> BASE_ACTUATOR, offset |-> OFFSET_FAN,
       id |-> 0, value |-> 0] }

\* the clients of the server, named by the socket accept returns for them
ClientIds == {"c1", "c2"}

\* the clients that send payloads; the others connect and close
Senders == {"c1"}

\* number of payloads a client sends
MaxSends == 1

\* what a client sends
ClientPayloads == {EXIT, Frame(3, 16, 0, 0)}

\* what the client of a session sends: exit, accepted frames, and frames
\* and payloads of every kind the interpreter answers with an error frame
SessionPayloads ==
    { EXIT, Frame(3, 16, 1, 255), Frame(1, 3, 0, 0),
      Frame(1, 4, 0, 0), Frame(2, 34, 0, 0),
      Frame(3, 80, 0, 0), Frame(3, 80, 1, 255),
      Frame(4, 255, 0, 0), Frame(4, 255, 1, 255),
      Frame(0, 0, 0, 0), Frame(1, 3, 1, 255), Frame(5, 0, 0, 0),
      Frame(3, 16, 2, 255), <<"1", "0", "0", "0", "0">> }

\* the threads that call process_command: the server thread for a client
\* frame, and a caller of device_process_command and device_get_memory
RaceThreads == {"server", "caller"}

\* the commands they process: writes of power_sensors
RaceCommands == {Frame(4, 251, 1, 0), Frame(4, 251, 1, 17)}

\* the threads that call driver_set_door on one handle, each for a door of
\* its own
DriverThreads == {"t1", "t2"}

ThreadDoor(t) == IF t = "t1" THEN DOOR_1 ELSE DOOR_4

\* the calls they make
ThreadOps == {"set_door", "set_power_state", "reset_component"}

\* the states they ask for: closed, open, and a value that is neither
ThreadStates == DoorStates \cup {2}

\* the components they switch off or reset: a sensor, an actuator, and a
\* value that names no component
ThreadComponents == {COMPONENT_HUMIDITY, COMPONENT_FAN, COMPONENT_DOORS + 1}

\* how an exchange of theirs goes
ThreadExchanges ==
    { [outcome |-> o, draw |-> d] : o \in {"ok", "timeout"},
                                    d \in DriverDraws }

Payloads ==
    ReadFrames \cup WriteFrames \cup RejectedWriteFrames \cup BadRwFrames
        \cup OtherFrames \cup Malformed

(***************************************************************************)
(* State.                                                                  *)
(***************************************************************************)
VARIABLES
    g_memory,     \* the DeviceMemory block
    temp_base,    \* static of update_sensors
    humid_base,   \* static of update_sensors
    command,      \* the payload of the last call of process_command
    response,     \* the response it wrote
    ticked,       \* whether that call reached update_sensors
    raised,       \* the error_state bits that tick raised
    before,       \* history: error_state and actuators before that call
    ncmds,        \* number of payloads processed
    last_error,   \* DriverHandle.last_error
    call,         \* the last call of the driver API: [op, base, offset, id, value]
    result,       \* what it returned: [ok, error_code, value]
    wire,         \* the exchanges of that call: [request, outcome, response]
    pre,          \* history: the device memory before that call
    written,      \* history: what the setters wrote and nothing replaced since
    ncalls,       \* number of driver calls
    comm_context, \* DriverHandle.comm_context
    driver_pc,    \* where the caller of the driver API is: "idle", or in
                  \* the recv of comm_connect or of comm_send_receive
    sockets,      \* the sockets of the driver that are open
    inbox,        \* the payloads that reached the driver's socket, unread
    outbox,       \* the payloads the driver sent, not yet read by the peer
    pending,      \* history: frames sent minus responses received
    peer,         \* the other end of the stream: [mode, open, greeted]
    threads,      \* per thread, where it is and its locals: [pc, ...]
    lock,         \* DriverHandle.lock: the thread that holds it, or "free"
    g_running,        \* static of semi_vibe_device.c
    g_server_socket,  \* static of semi_vibe_device.c
    g_client_socket,  \* static of semi_vibe_device.c
    listening,    \* whether the listening socket is open
    served,       \* the accepted sockets that are open at the device
    backlog,      \* the clients that connected and are not accepted yet
    clients       \* per client of the server: [status, out, sent, acked]

driver_vars == <<last_error, call, result, wire, pre, written, ncalls>>

conn_vars == <<comm_context, driver_pc, sockets, inbox, outbox, pending,
               peer>>

thread_vars == <<threads, lock, g_running, g_server_socket, g_client_socket,
                 listening, served, backlog, clients>>

vars == <<g_memory, temp_base, humid_base, command, response, ticked,
          raised, before, ncmds, last_error, call, result, wire, pre,
          written, ncalls, comm_context, driver_pc, sockets, inbox, outbox,
          pending, peer, threads, lock, g_running, g_server_socket,
          g_client_socket, listening, served, backlog, clients>>

\* the part of the memory that `before' remembers
Snapshot(mem) ==
    [error_state |-> mem.error_state,
     actuator_a |-> mem.actuator_a, actuator_b |-> mem.actuator_b,
     actuator_c |-> mem.actuator_c, actuator_d |-> mem.actuator_d]

\* device_init, lines 41-69
device_init(a, b) ==
    [connected_device |-> 255, reserved_main |-> 0, power_state |-> 255,
     error_state |-> 0,
     sensor_a_id |-> 161, sensor_a_reading |-> a,
     sensor_b_id |-> 178, sensor_b_reading |-> b,
     actuator_a |-> 0, actuator_b |-> 0, actuator_c |-> 0, actuator_d |-> 0,
     power_sensors |-> 17, power_actuators |-> 85,
     reset_sensors |-> 0, reset_actuators |-> 0]

\* no setter has written a value yet (-1: nothing known)
NothingWritten ==
    [led |-> -1, fan |-> -1, heater |-> -1, door |-> [i \in 1..4 |-> -1]]

NoCall == [op |-> "none", base |-> 0, offset |-> 0, id |-> 0, value |-> 0]

\* driver_create and driver_connect: a connected handle that made no call
DriverIdle ==
    /\ last_error = DRIVER_ERROR_NONE
    /\ call = NoCall
    /\ result = [ok |-> TRUE, error_code |-> DRIVER_ERROR_NONE, value |-> 0]
    /\ wire = <<>>
    /\ pre = g_memory
    /\ written = NothingWritten
    /\ ncalls = 0

\* no stream
NoPeer == [mode |-> "none", open |-> FALSE, greeted |-> FALSE]

\* the device at the other end of an established stream, ACK received
DevicePeer == [mode |-> "device", open |-> TRUE, greeted |-> TRUE]

\* one caller, and the server not started
SingleThreaded ==
    /\ threads = <<>>
    /\ lock = "free"
    /\ g_running = FALSE
    /\ g_server_socket = INVALID_SOCKET
    /\ g_client_socket = INVALID_SOCKET
    /\ listening = FALSE
    /\ served = {}
    /\ backlog = <<>>
    /\ clients = <<>>

\* a handle after driver_create: not connected
NotConnected ==
    /\ comm_context = comm_init
    /\ driver_pc = "idle"
    /\ sockets = {}
    /\ inbox = <<>>
    /\ outbox = <<>>
    /\ pending = 0
    /\ peer = NoPeer

\* a handle after driver_connect to the device
Connected ==
    /\ comm_context = [comm_init EXCEPT !.connected = TRUE, !.socket = "1"]
    /\ driver_pc = "idle"
    /\ sockets = {"1"}
    /\ inbox = <<>>
    /\ outbox = <<>>
    /\ pending = 0
    /\ peer = DevicePeer

Init ==
    /\ \E r \in InitReadings : g_memory = device_init(r[1], r[2])
    /\ temp_base = 128
    /\ humid_base = 128
    /\ command = <<>>
    /\ response = <<>>
    /\ ticked = FALSE
    /\ raised = 0
    /\ before = Snapshot(g_memory)
    /\ ncmds = 0
    /\ DriverIdle
    /\ NotConnected
    /\ SingleThreaded

\* device_process_command, lines 183-189: one payload through process_command
DeviceProcessCommand ==
    /\ ncmds < MaxCmds
    /\ \E cmd \in Payloads, draw \in RandDraws :
          \E p \in {process_command(g_memory, cmd)} :
             \E u \in {update_sensors(p.mem, temp_base, humid_base, draw)} :
                /\ command' = cmd
                /\ before' = Snapshot(g_memory)
                /\ response' = p.response
                /\ ticked' = p.tick
                /\ IF p.tick
                   THEN /\ g_memory' = u.mem
                        /\ temp_base' = u.temp_base
                        /\ humid_base' = u.humid_base
                        /\ raised' = u.raised
                   ELSE /\ g_memory' = p.mem
                        /\ raised' = 0
                        /\ UNCHANGED <<temp_base, humid_base>>
    /\ ncmds' = ncmds + 1
    /\ UNCHANGED driver_vars
    /\ UNCHANGED conn_vars
    /\ UNCHANGED thread_vars

Next == DeviceProcessCommand

Spec == Init /\ [][Next]_vars

(***************************************************************************)
(* A driver session: calls of the driver API on a connected handle, each   *)
(* exchanging frames with the device.  A call holds the handle's lock from *)
(* its first to its last exchange, so it is one step.                      *)
(***************************************************************************)
\* the device as earlier writes left its actuators: LED 7, fan 200,
\* heater 9, doors 1 and 3 open
EarlierSession ==
    [device_init(0, 255) EXCEPT !.actuator_a = 7, !.actuator_b = 200,
                                !.actuator_c = 9, !.actuator_d = 17]

DriverInit ==
    /\ g_memory = EarlierSession
    /\ temp_base = 128
    /\ humid_base = 128
    /\ command = <<>>
    /\ response = <<>>
    /\ ticked = FALSE
    /\ raised = 0
    /\ before = Snapshot(g_memory)
    /\ ncmds = 0
    /\ DriverIdle
    /\ Connected
    /\ SingleThreaded

Session ==
    [mem |-> g_memory, temp_base |-> temp_base, humid_base |-> humid_base,
     last_error |-> last_error, wire |-> <<>>, ticked |-> FALSE, raised |-> 0]

ApiCall(op, id, value) ==
    [op |-> op, base |-> 0, offset |-> 0, id |-> id, value |-> value]

\* the state after a call c that returned out, with the new history w
Returned(c, out, w) ==
    /\ g_memory' = out.s.mem
    /\ temp_base' = out.s.temp_base
    /\ humid_base' = out.s.humid_base
    /\ last_error' = out.s.last_error
    /\ wire' = out.s.wire
    /\ command' = IF out.s.wire = <<>> THEN <<>>
                  ELSE out.s.wire[Len(out.s.wire)].request
    /\ response' = IF out.s.wire = <<>> THEN <<>>
                   ELSE out.s.wire[Len(out.s.wire)].response
    /\ ticked' = out.s.ticked
    /\ raised' = out.s.raised
    /\ before' = Snapshot(g_memory)
    /\ ncmds' = ncmds + Len(out.s.wire)
    /\ call' = c
    /\ result' = [ok |-> out.ok, error_code |-> out.error_code,
                  value |-> out.value]
    /\ pre' = g_memory
    /\ written' = w
    /\ ncalls' = ncalls + 1
    /\ UNCHANGED conn_vars
    /\ UNCHANGED thread_vars

\* what a setter that returned ok leaves known of the value it wrote
Known(ok, value) == IF ok THEN value ELSE -1

DriverSetLed ==
    /\ ncalls < MaxCalls
    /\ \E v \in LedValues, script \in Scripts(1) :
          \E out \in {driver_set_led(Session, v, script)} :
             Returned(ApiCall("set_led", 0, v), out,
                      [written EXCEPT !.led = Known(out.ok, v)])

DriverGetLed ==
    /\ ncalls < MaxCalls
    /\ \E script \in Scripts(1) :
          \E out \in {driver_get_led(Session, script)} :
             Returned(ApiCall("get_led", 0, 0), out, written)

DriverSetFan ==
    /\ ncalls < MaxCalls
    /\ \E v \in FanValues, script \in Scripts(1) :
          \E out \in {driver_set_fan(Session, v, script)} :
             Returned(ApiCall("set_fan", 0, v), out,
                      [written EXCEPT !.fan = Known(out.ok, v)])

DriverGetFan ==
    /\ ncalls < MaxCalls
    /\ \E script \in Scripts(1) :
          \E out \in {driver_get_fan(Session, script)} :
             Returned(ApiCall("get_fan", 0, 0), out, written)

DriverSetHeater ==
    /\ ncalls < MaxCalls
    /\ \E v \in HeaterValues, script \in Scripts(2) :
          \E out \in {driver_set_heater(Session, v, script)} :
             Returned(ApiCall("set_heater", 0, v), out,
                      [written EXCEPT
                          !.heater = Known(out.ok, BitAnd(v, 15))])

DriverGetHeater ==
    /\ ncalls < MaxCalls
    /\ \E script \in Scripts(1) :
          \E out \in {driver_get_heater(Session, script)} :
             Returned(ApiCall("get_heater", 0, 0), out, written)

DriverSetDoor ==
    /\ ncalls < MaxCalls
    /\ \E door_id \in CalledDoors, state \in DoorStates, script \in Scripts(3) :
          \E out \in {driver_set_door(Session, door_id, state, script)} :
             Returned(ApiCall("set_door", door_id, state), out,
                      [written EXCEPT
                          !.door[door_id] = Known(out.ok, state)])

DriverGetDoorState ==
    /\ ncalls < MaxCalls
    /\ \E door_id \in CalledDoors, script \in Scripts(1) :
          \E out \in {driver_get_door_state(Session, door_id, script)} :
             Returned(ApiCall("get_door_state", door_id, 0), out, written)

DriverSetPowerState ==
    /\ ncalls < MaxCalls
    /\ \E c \in CalledComponents, powered \in BOOLEAN,
          script \in Scripts(2) :
          \E out \in {driver_set_power_state(Session, c, powered, script)} :
             Returned(ApiCall("set_power_state", c,
                              IF powered THEN 1 ELSE 0), out, written)

DriverGetPowerState ==
    /\ ncalls < MaxCalls
    /\ \E c \in Components, script \in Scripts(1) :
          \E out \in {driver_get_power_state(Session, c, script)} :
             Returned(ApiCall("get_power_state", c, 0), out, written)

DriverGetErrorState ==
    /\ ncalls < MaxCalls
    /\ \E c \in Components, script \in Scripts(1) :
          \E out \in {driver_get_error_state(Session, c, script)} :
             Returned(ApiCall("get_error_state", c, 0), out, written)

\* a reset of an actuator replaces what was written to its register
Forgotten(c) ==
    CASE c = COMPONENT_LED -> [written EXCEPT !.led = -1]
      [] c = COMPONENT_FAN -> [written EXCEPT !.fan = -1]
      [] c = COMPONENT_HEATER -> [written EXCEPT !.heater = -1]
      [] c = COMPONENT_DOORS ->
           [written EXCEPT !.door = [i \in 1..4 |-> -1]]
      [] OTHER -> written

DriverResetComponent ==
    /\ ncalls < MaxCalls
    /\ \E c \in CalledComponents, script \in Scripts(2) :
          \E out \in {driver_reset_component(Session, c, script)} :
             Returned(ApiCall("reset_component", c, 0), out, Forgotten(c))

DriverNext ==
    \/ DriverSetLed
    \/ DriverGetLed
    \/ DriverSetFan
    \/ DriverGetFan
    \/ DriverSetHeater
    \/ DriverGetHeater
    \/ DriverSetDoor
    \/ DriverGetDoorState
    \/ DriverSetPowerState
    \/ DriverGetPowerState
    \/ DriverGetErrorState
    \/ DriverResetComponent

DriverSpec == DriverInit /\ [][DriverNext]_vars

(***************************************************************************)
(* The register access of the driver against any peer: what read_register  *)
(* and write_register make of the text that comm_send_receive received in  *)
(* answer to their request.                                                *)
(***************************************************************************)
RegisterReply ==
    \E rq \in RegisterRequests, text \in PeerFrames :
       \E out \in { IF rq.op = "write_register"
                    THEN WriteReply(Session, rq.value, text)
                         @@ [value |-> 0]
                    ELSE ReadReply(Session, text) } :
          /\ call' = rq
          /\ command' = IF rq.op = "write_register"
                        THEN format_write_command(rq.base, rq.offset,
                                                  rq.value)
                        ELSE format_read_command(rq.base, rq.offset)
          /\ response' = text
          /\ wire' = <<[request |-> command', outcome |-> "ok",
                        response |-> text]>>
          /\ last_error' = out.s.last_error
          /\ result' = [ok |-> out.ok,
                        error_code |-> IF out.ok THEN DRIVER_ERROR_NONE
                                       ELSE out.s.last_error,
                        value |-> out.value]
          /\ UNCHANGED <<g_memory, temp_base, humid_base, ticked, raised,
                         before, ncmds, pre, written, ncalls>>
          /\ UNCHANGED conn_vars
          /\ UNCHANGED thread_vars

ReplyNext == RegisterReply

ReplySpec == DriverInit /\ [][ReplyNext]_vars

(***************************************************************************)
(* The protocol helpers on their own: a text is parsed, and the message    *)
(* that comes out is formatted again.                                      *)
(***************************************************************************)
\* the characters the texts are made of: digits, upper-case and lower-case
\* hex letters, and a character that is no hex digit
TextChars == {"0", "1", "F", "b", "G"}

\* the texts that are parsed: every text of six of these characters, and
\* texts of other lengths
Texts ==
    [1..6 -> TextChars]
        \cup { ERR_INVALID, ERR_GENERAL, <<>>, <<"1", "F", "F", "F", "F">>,
                <<"1", "F", "F", "F", "F", "F", "F">> }

ProtocolInit ==
    /\ g_memory = EarlierSession
    /\ temp_base = 128
    /\ humid_base = 128
    /\ command \in Texts
    /\ response = <<>>
    /\ ticked = FALSE
    /\ raised = 0
    /\ before = Snapshot(g_memory)
    /\ ncmds = 0
    /\ DriverIdle
    /\ NotConnected
    /\ SingleThreaded

\* protocol_parse_message of the text, then protocol_format_message of the
\* message when the text was parsed
ProtocolRoundTrip ==
    /\ call = NoCall
    /\ \E message \in {protocol_parse_message(command)} :
          /\ call' = [NoCall EXCEPT !.op = "round_trip"]
          /\ result' = [ok |-> message.ok, error_code |-> DRIVER_ERROR_NONE,
                        value |-> message.data]
          /\ response' = IF message.ok THEN protocol_format_message(message)
                         ELSE <<>>
    /\ UNCHANGED <<g_memory, temp_base, humid_base, command, ticked, raised,
                   before, ncmds, last_error, wire, pre, written, ncalls>>
    /\ UNCHANGED conn_vars
    /\ UNCHANGED thread_vars

ProtocolNext == ProtocolRoundTrip

ProtocolSpec == ProtocolInit /\ [][ProtocolNext]_vars

(***************************************************************************)
(* The reverse round trip: a message structure is formatted by             *)
(* protocol_format_message and the text is parsed again by                 *)
(* protocol_parse_message.  The messages are the well-formed ones: base    *)
(* and rw of one hex digit, offset and data of one byte, error 0.          *)
(***************************************************************************)
\* the bytes the offset and data fields are drawn from: the ends of the
\* range, bytes below 16 (a leading zero is written) and bytes with letters
MessageBytes == {0, 1, 10, 16, 171, 205, 255}

Messages ==
    [base : 0..15, offset : MessageBytes, rw : 0..15, data : MessageBytes,
     error : {0}]

FormatInit ==
    /\ g_memory = EarlierSession
    /\ temp_base = 128
    /\ humid_base = 128
    /\ command = <<>>
    /\ response = <<>>
    /\ ticked = FALSE
    /\ raised = 0
    /\ before = Snapshot(g_memory)
    /\ ncmds = 0
    /\ last_error = DRIVER_ERROR_NONE
    /\ call = NoCall
    /\ result = [ok |-> FALSE, base |-> 0, offset |-> 0, rw |-> 0, data |-> 0,
                 error |-> 0]
    /\ wire = <<>>
    /\ pre \in Messages
    /\ written = NothingWritten
    /\ ncalls = 0
    /\ NotConnected
    /\ SingleThreaded

\* protocol_format_message of the message, then protocol_parse_message of
\* the text it wrote
ProtocolFormatParse ==
    /\ call = NoCall
    /\ \E text \in {protocol_format_message(pre)} :
          /\ call' = [NoCall EXCEPT !.op = "format_parse"]
          /\ response' = text
          /\ result' = protocol_parse_message(text)
    /\ UNCHANGED <<g_memory, temp_base, humid_base, command, ticked, raised,
                   before, ncmds, last_error, wire, pre, written, ncalls>>
    /\ UNCHANGED conn_vars
    /\ UNCHANGED thread_vars

FormatNext == ProtocolFormatParse

FormatSpec == FormatInit /\ [][FormatNext]_vars

(***************************************************************************)
(* A handle that connects, calls and disconnects, with the recv of         *)
(* comm_connect and of comm_send_receive as steps of their own.  The peer  *)
(* is the device ("device": it greets with ACK and answers each frame      *)
(* through process_command, and it may close the stream), or a program     *)
(* that accepts the stream, sends a greeting and never answers a frame     *)
(* ("silent").  A recv returns all the bytes that have arrived.  The send  *)
(* of a six-byte frame to a peer that holds the stream open succeeds.      *)
(***************************************************************************)
peer_vars == <<g_memory, temp_base, humid_base, command, response, ticked,
               raised, before, ncmds>>

history_vars == <<pre, written>>

ConnInit ==
    /\ g_memory = EarlierSession
    /\ temp_base = 128
    /\ humid_base = 128
    /\ command = <<>>
    /\ response = <<>>
    /\ ticked = FALSE
    /\ raised = 0
    /\ before = Snapshot(g_memory)
    /\ ncmds = 0
    /\ DriverIdle
    /\ NotConnected
    /\ SingleThreaded

\* what a call returns: the bool, *error_code and the out-parameter
Outcome(ok, error_code, value) ==
    [ok |-> ok,
     error_code |-> IF ok THEN DRIVER_ERROR_NONE ELSE error_code,
     value |-> value]

\* one exchange of the current call, as wire records it
Exchange(request, outcome, text) ==
    [request |-> request, outcome |-> outcome, response |-> text]

\* the call c has started
Called(c) ==
    /\ driver_pc = "idle"
    /\ ncalls < MaxOps
    /\ call' = c
    /\ ncalls' = ncalls + 1

\* driver_set_timeout, lines 259-301
DriverSetTimeout ==
    \E timeout_ms \in Timeouts :
       /\ Called(ApiCall("set_timeout", 0, timeout_ms))
       /\ comm_context' = comm_set_timeout(comm_context, timeout_ms)
       /\ result' = Outcome(TRUE, DRIVER_ERROR_NONE, 0)
       /\ wire' = <<>>
       /\ UNCHANGED <<last_error, driver_pc, sockets, inbox, outbox, pending,
                      peer>>
       /\ UNCHANGED peer_vars
       /\ UNCHANGED history_vars
       /\ UNCHANGED thread_vars

\* driver_connect, lines 312-377, with comm_connect up to its recv, lines
\* 465-577: the handle is connected already, or no socket is to be had or
\* connect() fails, or the stream is established and the greeting awaited
DriverConnect ==
    /\ Called(ApiCall("connect", 0, 0))
    /\ \/ /\ comm_context.connected
          /\ result' = Outcome(TRUE, DRIVER_ERROR_NONE, 0)
          /\ wire' = <<>>
          /\ UNCHANGED <<last_error, comm_context, driver_pc, sockets, inbox,
                         outbox, pending, peer>>
       \/ /\ ~comm_context.connected
          /\ \E how \in {"no_socket", "refused"} :
                wire' = <<Exchange(<<>>, how, <<>>)>>
          /\ result' = Outcome(FALSE, DRIVER_ERROR_CONNECTION_FAILED, 0)
          /\ last_error' = DRIVER_ERROR_CONNECTION_FAILED
          /\ UNCHANGED <<comm_context, driver_pc, sockets, inbox, outbox,
                         pending, peer>>
       \/ /\ ~comm_context.connected
          /\ \E mode \in {"device", "silent"} :
                peer' = [mode |-> mode, open |-> TRUE, greeted |-> FALSE]
          /\ comm_context' = [comm_context EXCEPT
                                 !.socket = ToString(ncalls + 1)]
          /\ sockets' = sockets \cup {ToString(ncalls + 1)}
          /\ driver_pc' = "comm_connect"
          /\ inbox' = <<>>
          /\ outbox' = <<>>
          /\ pending' = 0
          /\ wire' = <<>>
          /\ UNCHANGED <<last_error, result>>
    /\ UNCHANGED peer_vars
    /\ UNCHANGED history_vars
    /\ UNCHANGED thread_vars

\* comm_connect has received buffer (<<>>: nothing), and driver_connect
\* returns
ConnectReturns(buffer, how) ==
    \E c \in {comm_connect(comm_context, buffer)} :
       /\ comm_context' = c.context
       /\ sockets' = sockets \ c.closed
       /\ peer' = IF c.ok THEN peer ELSE NoPeer
       /\ result' = Outcome(c.ok, DRIVER_ERROR_CONNECTION_FAILED, 0)
       /\ last_error' = IF c.ok THEN last_error
                        ELSE DRIVER_ERROR_CONNECTION_FAILED
       /\ wire' = <<Exchange(<<>>, how, buffer)>>
       /\ inbox' = <<>>
       /\ driver_pc' = "idle"
       /\ UNCHANGED <<call, ncalls, outbox, pending>>
       /\ UNCHANGED peer_vars
       /\ UNCHANGED history_vars
       /\ UNCHANGED thread_vars

\* the recv of comm_connect, line 578, returns what has arrived
ConnectRecv ==
    /\ driver_pc = "comm_connect"
    /\ inbox # <<>>
    /\ ConnectReturns(Received(inbox), "received")

\* the recv of comm_connect returns nothing
ConnectRecvNothing ==
    /\ driver_pc = "comm_connect"
    /\ inbox = <<>>
    /\ RecvReturnsEmpty(comm_context, peer.open)
    /\ ConnectReturns(<<>>, "nothing")

\* the request frame of a call on a register
RequestFrame(c) ==
    IF c.op = "set_led" THEN format_write_command(c.base, c.offset, c.value)
    ELSE format_read_command(c.base, c.offset)

\* driver_get_led and driver_set_led, lines 608-692, with read_register or
\* write_register and comm_send_receive up to its recv, line 707
RegisterCall ==
    \E c \in ConnRequests :
       /\ Called(c)
       /\ \/ /\ ~comm_context.connected
             /\ result' = Outcome(FALSE, DRIVER_ERROR_NOT_CONNECTED, 0)
             /\ last_error' = DRIVER_ERROR_NOT_CONNECTED
             /\ wire' = <<>>
             /\ UNCHANGED <<comm_context, driver_pc, sockets, inbox, outbox,
                            pending, peer>>
          \/ /\ comm_context.connected
             /\ outbox' = IF peer.open THEN Append(outbox, RequestFrame(c))
                          ELSE outbox
             /\ pending' = pending + 1
             /\ driver_pc' = "comm_send_receive"
             /\ wire' = <<Exchange(RequestFrame(c), "sent", <<>>)>>
             /\ UNCHANGED <<last_error, result, comm_context, sockets, inbox,
                            peer>>
          \/ /\ comm_context.connected
             /\ ~peer.open
             /\ comm_context' = [comm_context EXCEPT
                                    !.last_error = COMM_ERROR_SEND_FAILED]
             /\ result' = Outcome(FALSE, DRIVER_ERROR_COMMUNICATION, 0)
             /\ last_error' = DRIVER_ERROR_COMMUNICATION
             /\ wire' = <<Exchange(RequestFrame(c), "send_failed", <<>>)>>
             /\ UNCHANGED <<driver_pc, sockets, inbox, outbox, pending, peer>>
       /\ UNCHANGED peer_vars
       /\ UNCHANGED history_vars
       /\ UNCHANGED thread_vars

\* the recv of comm_send_receive returns what has arrived, and the call
\* makes of it what read_register or write_register do
RegisterRecv ==
    /\ driver_pc = "comm_send_receive"
    /\ inbox # <<>>
    /\ \E text \in {CStr(Received(inbox))} :
          \E r \in { IF call.op = "set_led"
                     THEN WriteReply([last_error |-> last_error],
                                     call.value, text) @@ [value |-> 0]
                     ELSE ReadReply([last_error |-> last_error], text) } :
             /\ result' = Outcome(r.ok, r.s.last_error, r.value)
             /\ last_error' = r.s.last_error
             /\ wire' = <<Exchange(wire[1].request, "received", text)>>
    /\ comm_context' = [comm_context EXCEPT !.last_error = COMM_ERROR_NONE]
    /\ pending' = pending - Len(inbox)
    /\ inbox' = <<>>
    /\ driver_pc' = "idle"
    /\ UNCHANGED <<call, ncalls, sockets, outbox, peer>>
    /\ UNCHANGED peer_vars
    /\ UNCHANGED history_vars
    /\ UNCHANGED thread_vars

\* the recv of comm_send_receive returns nothing: the timeout expired or
\* the peer has closed the stream
RegisterRecvNothing ==
    /\ driver_pc = "comm_send_receive"
    /\ inbox = <<>>
    /\ RecvReturnsEmpty(comm_context, peer.open)
    /\ \E comm_error \in {RecvError(comm_context, peer.open)} :
          /\ comm_context' = [comm_context EXCEPT !.last_error = comm_error]
          /\ result' = Outcome(FALSE, CommFailure(comm_error), 0)
          /\ last_error' = CommFailure(comm_error)
          /\ wire' = <<Exchange(wire[1].request,
                                IF comm_error = COMM_ERROR_TIMEOUT
                                THEN "timeout" ELSE "closed", <<>>)>>
    /\ driver_pc' = "idle"
    /\ UNCHANGED <<call, ncalls, sockets, inbox, outbox, pending, peer>>
    /\ UNCHANGED peer_vars
    /\ UNCHANGED history_vars
    /\ UNCHANGED thread_vars

\* driver_disconnect, lines 386-437; the send of exit to a peer that has
\* closed the stream succeeds or fails
DriverDisconnect ==
    /\ Called(ApiCall("disconnect", 0, 0))
    /\ \E send_ok \in (IF peer.open THEN {TRUE} ELSE BOOLEAN) :
          \E d \in {comm_disconnect(comm_context, TRUE, send_ok)} :
             /\ comm_context' = d.context
             /\ sockets' = sockets \ d.closed
             /\ outbox' = IF peer.open THEN outbox \o d.sent ELSE outbox
             /\ result' = Outcome(d.ok, DRIVER_ERROR_COMMUNICATION, 0)
             /\ last_error' = IF d.ok THEN last_error
                              ELSE DRIVER_ERROR_COMMUNICATION
             /\ wire' = IF comm_context.connected
                        THEN <<Exchange(EXIT, IF send_ok THEN "sent"
                                              ELSE "send_failed", <<>>)>>
                        ELSE <<>>
    /\ inbox' = <<>>
    /\ UNCHANGED <<driver_pc, pending, peer>>
    /\ UNCHANGED peer_vars
    /\ UNCHANGED history_vars
    /\ UNCHANGED thread_vars

\* the peer sends its greeting: the device ACK, another program any text
PeerGreets ==
    /\ peer.open
    /\ ~peer.greeted
    /\ \E text \in (IF peer.mode = "device" THEN {ACK} ELSE Greetings) :
          inbox' = Append(inbox, text)
    /\ peer' = [peer EXCEPT !.greeted = TRUE]
    /\ UNCHANGED <<comm_context, driver_pc, sockets, outbox, pending>>
    /\ UNCHANGED peer_vars
    /\ UNCHANGED driver_vars
    /\ UNCHANGED thread_vars

\* handle_client, lines 219-241: the device reads the next payload; on exit
\* it closes the stream, any other payload goes through process_command and
\* the response is sent
PeerServe ==
    /\ peer.mode = "device"
    /\ peer.open
    /\ peer.greeted
    /\ outbox # <<>>
    /\ outbox' = Tail(outbox)
    /\ IF CStr(Head(outbox)) = EXIT
       THEN /\ peer' = [peer EXCEPT !.open = FALSE]
            /\ UNCHANGED inbox
            /\ UNCHANGED peer_vars
       ELSE /\ \E draw \in DriverDraws :
                  \E d \in {DeviceServe(Session, Head(outbox), draw)} :
                     /\ g_memory' = d.s.mem
                     /\ temp_base' = d.s.temp_base
                     /\ humid_base' = d.s.humid_base
                     /\ ticked' = d.s.ticked
                     /\ raised' = d.s.raised
                     /\ response' = d.response
                     /\ inbox' = IF comm_context.socket # INVALID_SOCKET
                                 THEN Append(inbox, d.response)
                                 ELSE inbox
            /\ command' = Head(outbox)
            /\ before' = Snapshot(g_memory)
            /\ ncmds' = ncmds + 1
            /\ UNCHANGED peer
    /\ UNCHANGED <<comm_context, driver_pc, sockets, pending>>
    /\ UNCHANGED driver_vars
    /\ UNCHANGED thread_vars

\* device_stop, lines 149-153: the device closes the stream
PeerClose ==
    /\ peer.mode = "device"
    /\ peer.open
    /\ comm_context.socket # INVALID_SOCKET
    /\ peer' = [peer EXCEPT !.open = FALSE]
    /\ UNCHANGED <<comm_context, driver_pc, sockets, inbox, outbox, pending>>
    /\ UNCHANGED peer_vars
    /\ UNCHANGED driver_vars
    /\ UNCHANGED thread_vars

ConnNext ==
    \/ DriverSetTimeout
    \/ DriverConnect
    \/ ConnectRecv
    \/ ConnectRecvNothing
    \/ RegisterCall
    \/ RegisterRecv
    \/ RegisterRecvNothing
    \/ DriverDisconnect
    \/ PeerGreets
    \/ PeerServe
    \/ PeerClose

ConnSpec == ConnInit /\ [][ConnNext]_vars

\* a recv that can return does return
RecvReturns ==
    ConnectRecv \/ ConnectRecvNothing \/ RegisterRecv \/ RegisterRecvNothing

ConnLive == ConnSpec /\ WF_vars(RecvReturns)

(***************************************************************************)
(* The server of the device: handle_client, lines 191-251, on the thread   *)
(* "server", and device_stop, lines 141-172, on the thread "stop", each    *)
(* statement that reads or writes g_running, g_server_socket or            *)
(* g_client_socket a step.  accept blocks until a client is in the backlog *)
(* or the listening socket is closed; recv blocks until bytes have         *)
(* arrived, the client has closed, or the socket is closed (closesocket    *)
(* ends a blocking call on the socket).  A recv returns the bytes of one   *)
(* or more of the payloads that have arrived.                              *)
(***************************************************************************)
LISTENER == "listener"

At(t, pc) == threads[t].pc = pc

Goto(t, pc) == threads' = [threads EXCEPT ![t].pc = pc]

\* device_start has returned true
ServerInit ==
    /\ g_memory = EarlierSession
    /\ temp_base = 128
    /\ humid_base = 128
    /\ command = <<>>
    /\ response = <<>>
    /\ ticked = FALSE
    /\ raised = 0
    /\ before = Snapshot(g_memory)
    /\ ncmds = 0
    /\ DriverIdle
    /\ NotConnected
    /\ threads = [t \in {"server", "stop"} |->
                    [pc |-> IF t = "server" THEN "outer" ELSE "idle",
                     ret |-> INVALID_SOCKET, buffer |-> <<>>]]
    /\ lock = "free"
    /\ g_running = TRUE
    /\ g_server_socket = LISTENER
    /\ g_client_socket = INVALID_SOCKET
    /\ listening = TRUE
    /\ served = {}
    /\ backlog = <<>>
    /\ clients = [c \in ClientIds |->
                    [status |-> "none", out |-> <<>>, sent |-> 0,
                     acked |-> FALSE]]

device_vars == <<g_memory, temp_base, humid_base, command, response, ticked,
                 raised, before, ncmds>>

\* what a step of the server or of device_stop leaves alone
Elsewhere == <<driver_vars, conn_vars, lock>>

\* strcmp(buffer, "exit") == 0, line 232
IsExit_Never(buffer) == FALSE

IsExit(buffer) == CStr(buffer) = EXIT

\* while (g_running), line 195
ServerOuter ==
    /\ At("server", "outer")
    /\ Goto("server", IF g_running THEN "accept" ELSE "done")
    /\ UNCHANGED <<g_running, g_server_socket, g_client_socket, listening,
                   served, backlog, clients>>
    /\ UNCHANGED device_vars
    /\ UNCHANGED Elsewhere

\* accept(g_server_socket, ...), line 199
ServerAccept ==
    /\ At("server", "accept")
    /\ IF g_server_socket = INVALID_SOCKET \/ ~listening
       THEN /\ threads' = [threads EXCEPT !["server"].pc = "assign",
                                          !["server"].ret = INVALID_SOCKET]
            /\ UNCHANGED <<served, backlog, clients>>
       ELSE /\ backlog # <<>>
            /\ threads' = [threads EXCEPT !["server"].pc = "assign",
                                          !["server"].ret = Head(backlog)]
            /\ served' = served \cup {Head(backlog)}
            /\ backlog' = Tail(backlog)
            /\ clients' = [clients EXCEPT ![Head(backlog)].status =
                              IF @ = "queued" THEN "open" ELSE @]
    /\ UNCHANGED <<g_running, g_server_socket, g_client_socket, listening>>
    /\ UNCHANGED device_vars
    /\ UNCHANGED Elsewhere

\* g_client_socket = <what accept returned>; if it is SOCKET_ERROR_VALUE,
\* continue: lines 199-207
ServerAssign ==
    /\ At("server", "assign")
    /\ g_client_socket' = threads["server"].ret
    /\ threads' = [threads EXCEPT
                      !["server"].pc = IF threads["server"].ret = INVALID_SOCKET
                                       THEN "outer" ELSE "ack",
                      !["server"].ret = INVALID_SOCKET]
    /\ UNCHANGED <<g_running, g_server_socket, listening, served, backlog,
                   clients>>
    /\ UNCHANGED device_vars
    /\ UNCHANGED Elsewhere

\* send(g_client_socket, "ACK", ...), lines 212-213
ServerAck ==
    /\ At("server", "ack")
    /\ clients' = IF g_client_socket \in served
                  THEN [clients EXCEPT ![g_client_socket].acked = TRUE]
                  ELSE clients
    /\ Goto("server", "inner")
    /\ UNCHANGED <<g_running, g_server_socket, g_client_socket, listening,
                   served, backlog>>
    /\ UNCHANGED device_vars
    /\ UNCHANGED Elsewhere

\* while (g_running), line 219
ServerInner ==
    /\ At("server", "inner")
    /\ Goto("server", IF g_running THEN "recv" ELSE "close")
    /\ UNCHANGED <<g_running, g_server_socket, g_client_socket, listening,
                   served, backlog, clients>>
    /\ UNCHANGED device_vars
    /\ UNCHANGED Elsewhere

\* recv(g_client_socket, ...), lines 221-236: an error or the end of the
\* stream breaks, and so does the payload exit
ServerRecv ==
    /\ At("server", "recv")
    /\ \/ /\ g_client_socket \notin served
          /\ threads' = [threads EXCEPT !["server"].pc = "close",
                                        !["server"].buffer = <<>>]
          /\ UNCHANGED clients
       \/ /\ g_client_socket \in served
          /\ clients[g_client_socket].out = <<>>
          /\ clients[g_client_socket].status = "closed"
          /\ threads' = [threads EXCEPT !["server"].pc = "close",
                                        !["server"].buffer = <<>>]
          /\ UNCHANGED clients
       \/ /\ g_client_socket \in served
          /\ \E n \in 1..Len(clients[g_client_socket].out) :
                \E buffer \in
                   {Received(SubSeq(clients[g_client_socket].out, 1, n))} :
                   /\ threads' = [threads EXCEPT
                                     !["server"].pc =
                                        IF IsExit(buffer) THEN "close"
                                        ELSE "process",
                                     !["server"].buffer = buffer]
                   /\ clients' = [clients EXCEPT ![g_client_socket].out =
                                     SubSeq(@, n + 1, Len(@))]
    /\ UNCHANGED <<g_running, g_server_socket, g_client_socket, listening,
                   served, backlog>>
    /\ UNCHANGED device_vars
    /\ UNCHANGED Elsewhere

\* process_command(buffer, response) and the send of the response, lines
\* 238-241
ServerProcess ==
    /\ At("server", "process")
    /\ \E draw \in DriverDraws :
          \E d \in {DeviceServe(Session, threads["server"].buffer, draw)} :
             /\ g_memory' = d.s.mem
             /\ temp_base' = d.s.temp_base
             /\ humid_base' = d.s.humid_base
             /\ ticked' = d.s.ticked
             /\ raised' = d.s.raised
             /\ response' = d.response
    /\ command' = threads["server"].buffer
    /\ before' = Snapshot(g_memory)
    /\ ncmds' = ncmds + 1
    /\ threads' = [threads EXCEPT !["server"].pc = "inner",
                                  !["server"].buffer = <<>>]
    /\ UNCHANGED <<g_running, g_server_socket, g_client_socket, listening,
                   served, backlog, clients>>
    /\ UNCHANGED Elsewhere

\* variant: the client socket is left open
ServerClose_Leaks ==
    /\ At("server", "close")
    /\ g_client_socket' = INVALID_SOCKET
    /\ threads' = [threads EXCEPT !["server"].pc = "outer",
                                  !["server"].buffer = <<>>]
    /\ UNCHANGED <<g_running, g_server_socket, listening, served, backlog,
                   clients>>
    /\ UNCHANGED device_vars
    /\ UNCHANGED Elsewhere

\* close_socket(g_client_socket); g_client_socket = SOCKET_ERROR_VALUE,
\* lines 245-246
ServerClose ==
    /\ At("server", "close")
    /\ served' = served \ {g_client_socket}
    /\ g_client_socket' = INVALID_SOCKET
    /\ threads' = [threads EXCEPT !["server"].pc = "outer",
                                  !["server"].buffer = <<>>]
    /\ UNCHANGED <<g_running, g_server_socket, listening, backlog, clients>>
    /\ UNCHANGED device_vars
    /\ UNCHANGED Elsewhere

\* handle_client, a step of it
ServerThread ==
    \/ ServerOuter
    \/ ServerAccept
    \/ ServerAssign
    \/ ServerAck
    \/ ServerInner
    \/ ServerRecv
    \/ ServerProcess
    \/ ServerClose

\* device_stop is called while the device runs: g_running = false, lines
\* 142-147
DeviceStopCall ==
    /\ At("stop", "idle")
    /\ g_running
    /\ g_running' = FALSE
    /\ Goto("stop", "check_client")
    /\ UNCHANGED <<g_server_socket, g_client_socket, listening, served,
                   backlog, clients>>
    /\ UNCHANGED device_vars
    /\ UNCHANGED Elsewhere

\* if (g_client_socket != SOCKET_ERROR_VALUE), line 150
StopCheckClient ==
    /\ At("stop", "check_client")
    /\ Goto("stop", IF g_client_socket # INVALID_SOCKET THEN "close_client"
                    ELSE "close_server")
    /\ UNCHANGED <<g_running, g_server_socket, g_client_socket, listening,
                   served, backlog, clients>>
    /\ UNCHANGED device_vars
    /\ UNCHANGED Elsewhere

\* variant: the client socket is not closed
StopCloseClient_Skips ==
    /\ At("stop", "close_client")
    /\ Goto("stop", "close_server")
    /\ UNCHANGED <<g_running, g_server_socket, g_client_socket, listening,
                   served, backlog, clients>>
    /\ UNCHANGED device_vars
    /\ UNCHANGED Elsewhere

\* close_socket(g_client_socket); g_client_socket = SOCKET_ERROR_VALUE,
\* lines 151-152.  Between the two statements the variable holds the handle
\* of a closed socket, on which every call of the server thread fails as it
\* does on SOCKET_ERROR_VALUE.
StopCloseClient ==
    /\ At("stop", "close_client")
    /\ served' = served \ {g_client_socket}
    /\ g_client_socket' = INVALID_SOCKET
    /\ Goto("stop", "close_server")
    /\ UNCHANGED <<g_running, g_server_socket, listening, backlog, clients>>
    /\ UNCHANGED device_vars
    /\ UNCHANGED Elsewhere

\* if (g_server_socket != SOCKET_ERROR_VALUE) { close_socket(...);
\* g_server_socket = SOCKET_ERROR_VALUE; }, lines 156-159; no other thread
\* writes g_server_socket
StopCloseServer ==
    /\ At("stop", "close_server")
    /\ listening' = IF g_server_socket # INVALID_SOCKET THEN FALSE
                    ELSE listening
    /\ g_server_socket' = INVALID_SOCKET
    /\ Goto("stop", "join")
    /\ UNCHANGED <<g_running, g_client_socket, served, backlog, clients>>
    /\ UNCHANGED device_vars
    /\ UNCHANGED Elsewhere

\* WaitForSingleObject(g_server_thread, INFINITE) returns, lines 162-171
StopJoin ==
    /\ At("stop", "join")
    /\ At("server", "done")
    /\ Goto("stop", "returned")
    /\ UNCHANGED <<g_running, g_server_socket, g_client_socket, listening,
                   served, backlog, clients>>
    /\ UNCHANGED device_vars
    /\ UNCHANGED Elsewhere

\* device_stop after it has set g_running, a step of it
DeviceStop ==
    \/ StopCheckClient
    \/ StopCloseClient
    \/ StopCloseServer
    \/ StopJoin

\* a client connects to the port
ClientConnect(c) ==
    /\ clients[c].status = "none"
    /\ listening
    /\ clients' = [clients EXCEPT ![c].status = "queued"]
    /\ backlog' = Append(backlog, c)
    /\ UNCHANGED <<threads, g_running, g_server_socket, g_client_socket,
                   listening, served>>
    /\ UNCHANGED device_vars
    /\ UNCHANGED Elsewhere

\* a client sends a payload
ClientSend(c) ==
    /\ clients[c].status \in {"queued", "open"}
    /\ clients[c].sent < MaxSends
    /\ \E payload \in ClientPayloads :
          clients' = [clients EXCEPT ![c].out = Append(@, payload),
                                     ![c].sent = @ + 1]
    /\ UNCHANGED <<threads, g_running, g_server_socket, g_client_socket,
                   listening, served, backlog>>
    /\ UNCHANGED device_vars
    /\ UNCHANGED Elsewhere

\* a client closes its end of the stream
ClientClose(c) ==
    /\ clients[c].status \in {"queued", "open"}
    /\ clients' = [clients EXCEPT ![c].status = "closed"]
    /\ UNCHANGED <<threads, g_running, g_server_socket, g_client_socket,
                   listening, served, backlog>>
    /\ UNCHANGED device_vars
    /\ UNCHANGED Elsewhere

ServerNext ==
    \/ ServerThread
    \/ DeviceStopCall
    \/ DeviceStop
    \/ \E c \in ClientIds : ClientConnect(c)
    \/ \E c \in Senders : ClientSend(c)
    \/ \E c \in ClientIds : ClientClose(c)

ServerSpec == ServerInit /\ [][ServerNext]_vars

\* the two threads are scheduled: a step of either that can be taken is
\* taken; nothing is assumed of the clients or of the call of device_stop
ServerLive ==
    ServerSpec /\ WF_vars(ServerThread) /\ WF_vars(DeviceStop)

(***************************************************************************)
(* One client served by handle_client, with no call of device_stop: the    *)
(* client connects, sends payloads of every kind and closes.               *)
(***************************************************************************)
\* the client sends a payload
ClientSendCommand(c) ==
    /\ clients[c].status \in {"queued", "open"}
    /\ clients[c].sent < MaxCmds
    /\ \E payload \in SessionPayloads :
          clients' = [clients EXCEPT ![c].out = Append(@, payload),
                                     ![c].sent = @ + 1]
    /\ UNCHANGED <<threads, g_running, g_server_socket, g_client_socket,
                   listening, served, backlog>>
    /\ UNCHANGED device_vars
    /\ UNCHANGED Elsewhere

SessionNext ==
    \/ ServerThread
    \/ \E c \in Senders : ClientConnect(c)
    \/ \E c \in Senders : ClientSendCommand(c)
    \/ \E c \in Senders : ClientClose(c)

SessionSpec == ServerInit /\ [][SessionNext]_vars

(***************************************************************************)
(* process_command on two threads.  semi_vibe_device.c has no lock: the    *)
(* server thread calls process_command from handle_client, line 238, and   *)
(* device_process_command, lines 183-189, calls it on the thread of its    *)
(* caller; device_get_memory, lines 174-181, copies the block.  The write  *)
(* of power_sensors, lines 409-426, is three groups of stores, followed by *)
(* update_sensors, line 549.  Each group and the copy are steps.           *)
(***************************************************************************)
RaceInit ==
    /\ g_memory = EarlierSession
    /\ temp_base = 128
    /\ humid_base = 128
    /\ command = <<>>
    /\ response = <<>>
    /\ ticked = FALSE
    /\ raised = 0
    /\ before = Snapshot(g_memory)
    /\ ncmds = 0
    /\ DriverIdle
    /\ NotConnected
    /\ threads = [t \in RaceThreads |->
                    [pc |-> "idle", command |-> <<>>, copy |-> EarlierSession]]
    /\ lock = "free"
    /\ g_running = TRUE
    /\ g_server_socket = LISTENER
    /\ g_client_socket = INVALID_SOCKET
    /\ listening = TRUE
    /\ served = {}
    /\ backlog = <<>>
    /\ clients = <<>>

\* what a step of process_command leaves alone
RaceElsewhere ==
    <<driver_vars, conn_vars, lock, g_running, g_server_socket,
      g_client_socket, listening, served, backlog, clients>>

\* the threads inside process_command
Inside == {t \in RaceThreads : threads[t].pc # "idle"}

\* process_command is entered with a command; lines 253-285 read no memory
RaceEnter(t) ==
    /\ At(t, "idle")
    /\ ncmds + Cardinality(Inside) < MaxCmds
    /\ \E cmd \in RaceCommands :
          threads' = [threads EXCEPT ![t].pc = "store", ![t].command = cmd]
    /\ UNCHANGED device_vars
    /\ UNCHANGED RaceElsewhere

\* g_memory.power_sensors = (uint8_t)(data & 0x11), line 409
RaceStore(t) ==
    /\ At(t, "store")
    /\ g_memory' = [g_memory EXCEPT !.power_sensors =
                       BitAnd(ParseData(threads[t].command), 17)]
    /\ Goto(t, "temperature")
    /\ UNCHANGED <<temp_base, humid_base, command, response, ticked, raised,
                   before, ncmds>>
    /\ UNCHANGED RaceElsewhere

\* if (data & 0x01) ... else ..., lines 412-418
RaceTemperature(t) ==
    /\ At(t, "temperature")
    /\ g_memory' = Propagate(g_memory, ParseData(threads[t].command), 1, 1)
    /\ Goto(t, "humidity")
    /\ UNCHANGED <<temp_base, humid_base, command, response, ticked, raised,
                   before, ncmds>>
    /\ UNCHANGED RaceElsewhere

\* if (data & 0x10) ... else ..., lines 420-426
RaceHumidity(t) ==
    /\ At(t, "humidity")
    /\ g_memory' = Propagate(g_memory, ParseData(threads[t].command), 16, 4)
    /\ Goto(t, "update_sensors")
    /\ UNCHANGED <<temp_base, humid_base, command, response, ticked, raised,
                   before, ncmds>>
    /\ UNCHANGED RaceElsewhere

\* the response, lines 538-546, and update_sensors, line 549
RaceUpdateSensors(t) ==
    /\ At(t, "update_sensors")
    /\ \E draw \in DriverDraws :
          \E u \in {update_sensors(g_memory, temp_base, humid_base, draw)} :
             /\ g_memory' = u.mem
             /\ temp_base' = u.temp_base
             /\ humid_base' = u.humid_base
             /\ raised' = u.raised
    /\ ticked' = TRUE
    /\ command' = threads[t].command
    /\ response' = threads[t].command
    /\ before' = before
    /\ ncmds' = ncmds + 1
    /\ Goto(t, "idle")
    /\ UNCHANGED RaceElsewhere

\* device_get_memory, lines 174-181
RaceGetMemory ==
    /\ At("caller", "idle")
    /\ threads' = [threads EXCEPT !["caller"].copy = g_memory]
    /\ UNCHANGED device_vars
    /\ UNCHANGED RaceElsewhere

RaceNext ==
    \/ \E t \in RaceThreads : RaceEnter(t)
    \/ \E t \in RaceThreads : RaceStore(t)
    \/ \E t \in RaceThreads : RaceTemperature(t)
    \/ \E t \in RaceThreads : RaceHumidity(t)
    \/ \E t \in RaceThreads : RaceUpdateSensors(t)
    \/ RaceGetMemory

RaceSpec == RaceInit /\ [][RaceNext]_vars

(***************************************************************************)
(* driver_set_door, lines 915-1030, called by two threads on one connected *)
(* handle: EnterCriticalSection, the read of the doors register, the       *)
(* write, the read-back and LeaveCriticalSection are steps.  An exchange   *)
(* is one step: the frame is sent, the device processes it, the response   *)
(* is received or the recv times out.  wire holds the frames of the calls  *)
(* that are between their first frame and their return, each with the      *)
(* thread that sent it.                                                    *)
(***************************************************************************)
ThreadInit ==
    /\ g_memory = EarlierSession
    /\ temp_base = 128
    /\ humid_base = 128
    /\ command = <<>>
    /\ response = <<>>
    /\ ticked = FALSE
    /\ raised = 0
    /\ before = Snapshot(g_memory)
    /\ ncmds = 0
    /\ DriverIdle
    /\ Connected
    /\ threads = [t \in DriverThreads |->
                    [pc |-> "idle", op |-> "set_door",
                     door_id |-> ThreadDoor(t),
                     state |-> DOOR_CLOSED, current_value |-> 0,
                     ok |-> FALSE, returned |-> FALSE,
                     recorded |-> DRIVER_ERROR_NONE,
                     error_code |-> DRIVER_ERROR_NONE]]
    /\ lock = "free"
    /\ g_running = TRUE
    /\ g_server_socket = LISTENER
    /\ g_client_socket = "c1"
    /\ listening = TRUE
    /\ served = {"c1"}
    /\ backlog = <<>>
    /\ clients = <<>>

\* variant: the lock is taken whoever holds it
EnterCriticalSection_NoWait(t) ==
    lock' = t

\* EnterCriticalSection(&driver->lock), line 929
EnterCriticalSection(t) ==
    /\ lock = "free"
    /\ lock' = t

\* variant: the lock is not released
LeaveCriticalSection_Skipped(t) ==
    lock' = lock

\* LeaveCriticalSection(&driver->lock), line 1023
LeaveCriticalSection(t) ==
    lock' = IF lock = t THEN "free" ELSE lock

\* what a step of a call leaves alone
ThreadElsewhere ==
    <<call, result, pre, written, conn_vars, g_running, g_server_socket,
      g_client_socket, listening, served, backlog, clients>>

\* the threads between their first frame and their return
OnTheWire == {t \in DriverThreads :
                 threads[t].pc \in {"write", "verify", "leave"}}

\* the exchange of thread t that left the session out.s has taken place
Exchanged(t, out) ==
    /\ g_memory' = out.s.mem
    /\ temp_base' = out.s.temp_base
    /\ humid_base' = out.s.humid_base
    /\ last_error' = out.s.last_error
    /\ ticked' = out.s.ticked
    /\ raised' = out.s.raised
    /\ command' = out.s.wire[1].request
    /\ response' = out.s.wire[1].response
    /\ before' = Snapshot(g_memory)
    /\ ncmds' = ncmds + 1
    /\ wire' = Append(wire, [thread |-> t,
                             request |-> out.s.wire[1].request,
                             outcome |-> out.s.wire[1].outcome,
                             response |-> out.s.wire[1].response])

\* the arguments of a call of op by thread t: <<id, state>>; a component
\* is switched off
ThreadArguments(t, op) ==
    IF op = "set_door"
    THEN {<<ThreadDoor(t), state>> : state \in ThreadStates}
    ELSE {<<c, 0>> : c \in ThreadComponents}

\* lines 942, 1654 and 1788: the check of the arguments
ValidArguments(op, id, state) ==
    IF op = "set_door"
    THEN ~(id < DOOR_1 \/ id > DOOR_4
           \/ (state # DOOR_OPEN /\ state # DOOR_CLOSED))
    ELSE ~(id < COMPONENT_TEMPERATURE \/ id > COMPONENT_DOORS)

\* the register a call reads and writes
ThreadBase(op) == IF op = "set_door" THEN BASE_ACTUATOR ELSE BASE_CONTROL

ThreadOffset(op, id) ==
    IF op = "set_door" THEN OFFSET_DOORS
    ELSE IF op = "set_power_state"
    THEN IF IsSensor(id) THEN OFFSET_POWER_SENSORS
         ELSE OFFSET_POWER_ACTUATORS
    ELSE IF IsSensor(id) THEN OFFSET_RESET_SENSORS
         ELSE OFFSET_RESET_ACTUATORS

\* the byte a call writes after it has read current_value
ThreadValue(op, current_value, id, state) ==
    IF op = "set_door" THEN DoorValue(current_value, id, state)
    ELSE IF op = "set_power_state"
    THEN PowerValue(current_value, id, state = 1)
    ELSE ResetValue(current_value, id)

\* driver_reset_component, lines 1860-1886: the switch on an actuator
\* takes its default branch, which returns without LeaveCriticalSection
ReturnsInSwitch(op, id) ==
    /\ op = "reset_component"
    /\ ~IsSensor(id)
    /\ id \notin {COMPONENT_LED, COMPONENT_FAN, COMPONENT_HEATER,
                  COMPONENT_DOORS}

\* a thread calls driver_set_door, driver_set_power_state or
\* driver_reset_component
ThreadCall(t) ==
    /\ At(t, "idle")
    /\ ncalls < MaxCalls
    /\ \E op \in ThreadOps :
          \E a \in ThreadArguments(t, op) :
             threads' = [threads EXCEPT
                            ![t].pc = "enter", ![t].op = op,
                            ![t].door_id = a[1], ![t].state = a[2],
                            ![t].ok = FALSE, ![t].returned = FALSE,
                            ![t].recorded = DRIVER_ERROR_NONE,
                            ![t].error_code = DRIVER_ERROR_NONE]
    /\ ncalls' = ncalls + 1
    /\ UNCHANGED <<last_error, wire, lock>>
    /\ UNCHANGED device_vars
    /\ UNCHANGED ThreadElsewhere

\* lines 929-951, 1641-1663 and 1775-1797: the lock is taken; the handle
\* is connected; invalid arguments are recorded by set_last_error
ThreadEnter(t) ==
    /\ At(t, "enter")
    /\ EnterCriticalSection(t)
    /\ IF ValidArguments(threads[t].op, threads[t].door_id, threads[t].state)
       THEN /\ Goto(t, "read")
            /\ UNCHANGED last_error
       ELSE /\ Goto(t, "reject")
            /\ last_error' = DRIVER_ERROR_INVALID_PARAMETER
    /\ UNCHANGED <<wire, ncalls>>
    /\ UNCHANGED device_vars
    /\ UNCHANGED ThreadElsewhere

\* lines 945-950: the lock is released and the call returns false with
\* DRIVER_ERROR_INVALID_PARAMETER
ThreadReject(t) ==
    /\ At(t, "reject")
    /\ LeaveCriticalSection(t)
    /\ threads' = [threads EXCEPT
                      ![t].pc = "idle", ![t].returned = TRUE,
                      ![t].recorded = DRIVER_ERROR_INVALID_PARAMETER,
                      ![t].error_code = DRIVER_ERROR_INVALID_PARAMETER]
    /\ UNCHANGED <<last_error, wire, ncalls>>
    /\ UNCHANGED device_vars
    /\ UNCHANGED ThreadElsewhere

\* lines 973-982, 1672-1680 and 1806-1814: read_register of the register
\* of the call; lines 1860-1886 for a reset that leaves its switch
ThreadRead(t) ==
    /\ At(t, "read")
    /\ \E ch \in ThreadExchanges :
          \E r \in {read_register(Session, ThreadBase(threads[t].op),
                                  ThreadOffset(threads[t].op,
                                               threads[t].door_id), ch)} :
             /\ Exchanged(t, r)
             /\ threads' =
                   IF r.ok /\ ReturnsInSwitch(threads[t].op,
                                              threads[t].door_id)
                   THEN [threads EXCEPT ![t].pc = "idle",
                                        ![t].returned = TRUE]
                   ELSE [threads EXCEPT
                            ![t].pc = IF r.ok THEN "write" ELSE "leave",
                            ![t].current_value = r.value]
    /\ UNCHANGED <<lock, ncalls>>
    /\ UNCHANGED ThreadElsewhere

\* lines 984-1001, 1697 and 1739, 1833 and 1890: the new byte and
\* write_register
ThreadWrite(t) ==
    /\ At(t, "write")
    /\ \E ch \in ThreadExchanges :
          \E w \in {write_register(Session, ThreadBase(threads[t].op),
                                   ThreadOffset(threads[t].op,
                                                threads[t].door_id),
                                   ThreadValue(threads[t].op,
                                               threads[t].current_value,
                                               threads[t].door_id,
                                               threads[t].state), ch)} :
             /\ Exchanged(t, w)
             /\ threads' =
                   IF threads[t].op = "set_door"
                   THEN [threads EXCEPT
                            ![t].pc = IF w.ok THEN "verify" ELSE "leave"]
                   ELSE [threads EXCEPT ![t].pc = "leave", ![t].ok = w.ok]
    /\ UNCHANGED <<lock, ncalls>>
    /\ UNCHANGED ThreadElsewhere

\* lines 1004-1020: the read-back
ThreadVerify(t) ==
    /\ At(t, "verify")
    /\ \E ch \in ThreadExchanges :
          \E v \in {VerifyDoor(Session, threads[t].door_id, threads[t].state,
                               ch)} :
             /\ Exchanged(t, v)
             /\ threads' = [threads EXCEPT ![t].pc = "leave",
                                           ![t].ok = v.ok]
    /\ UNCHANGED <<lock, ncalls>>
    /\ UNCHANGED ThreadElsewhere

\* lines 1023, 1744 and 1895 (and 976, 1675, 1809, 1843 after a read that
\* failed): the lock is released; last_error holds what the call recorded
ThreadLeave(t) ==
    /\ At(t, "leave")
    /\ LeaveCriticalSection(t)
    /\ threads' = [threads EXCEPT
                      ![t].pc = "report",
                      ![t].recorded = IF threads[t].ok THEN DRIVER_ERROR_NONE
                                      ELSE last_error]
    /\ wire' = IF OnTheWire \ {t} = {} THEN <<>> ELSE wire
    /\ UNCHANGED <<last_error, ncalls>>
    /\ UNCHANGED device_vars
    /\ UNCHANGED ThreadElsewhere

\* lines 1025-1029, 1746-1750 and 1897-1901: *error_code = result ?
\* DRIVER_ERROR_NONE : driver->last_error, and the call returns
ThreadReport(t) ==
    /\ At(t, "report")
    /\ threads' = [threads EXCEPT
                      ![t].pc = "idle", ![t].returned = TRUE,
                      ![t].error_code = IF threads[t].ok
                                        THEN DRIVER_ERROR_NONE
                                        ELSE last_error]
    /\ UNCHANGED <<last_error, wire, lock, ncalls>>
    /\ UNCHANGED device_vars
    /\ UNCHANGED ThreadElsewhere

ThreadNext ==
    \/ \E t \in DriverThreads : ThreadCall(t)
    \/ \E t \in DriverThreads : ThreadEnter(t)
    \/ \E t \in DriverThreads : ThreadReject(t)
    \/ \E t \in DriverThreads : ThreadRead(t)
    \/ \E t \in DriverThreads : ThreadWrite(t)
    \/ \E t \in DriverThreads : ThreadVerify(t)
    \/ \E t \in DriverThreads : ThreadLeave(t)
    \/ \E t \in DriverThreads : ThreadReport(t)

ThreadSpec == ThreadInit /\ [][ThreadNext]_vars

(***************************************************************************)
(* The last command, as the properties below read it.                      *)
(***************************************************************************)
Processed == ncmds > 0

LastBase == ParseBase(command)
LastOffset == ParseOffset(command)
LastRw == ParseRw(command)
LastData == ParseData(command)

\* the last payload was a frame <base, offset, rw, ..>
LastWas(base, offset, rw) ==
    /\ Processed
    /\ ValidFormat(command)
    /\ LastBase = base /\ LastOffset = offset /\ LastRw = rw

IsErrorFrame(r) == r = ERR_FORBIDDEN \/ r = ERR_INVALID

\* the last payload was a write to <base, offset> that was not answered
\* with an error frame
AcceptedWrite(base, offset) ==
    LastWas(base, offset, 1) /\ ~IsErrorFrame(response)

(***************************************************************************)
(* C1: in every reachable device state connected_device (MAIN 00) and      *)
(* power_state (MAIN 02) hold the same byte.                               *)
(***************************************************************************)
C1_ConnectedTracksPower ==
    g_memory.connected_device = g_memory.power_state

\* a power write has cleared bits of both registers
C1_Witness ==
    /\ AcceptedWrite(4, 252)
    /\ g_memory.power_state # 255
    /\ g_memory.connected_device = g_memory.power_state

(***************************************************************************)
(* C2 as stated: after an accepted write of D to power_sensors,            *)
(* (power_state & 0x11) == (D & 0x11) and (connected_device & 0x11) ==     *)
(* (D & 0x11); after one to power_actuators the same with mask 0x55.       *)
(***************************************************************************)
C2_Original ==
    /\ AcceptedWrite(4, 251) =>
         /\ BitAnd(g_memory.power_state, 17) = BitAnd(LastData, 17)
         /\ BitAnd(g_memory.connected_device, 17) = BitAnd(LastData, 17)
    /\ AcceptedWrite(4, 252) =>
         /\ BitAnd(g_memory.power_state, 85) = BitAnd(LastData, 85)
         /\ BitAnd(g_memory.connected_device, 85) = BitAnd(LastData, 85)

\* the bits of a MAIN status byte that data bits 0, 4 of a sensor register
\* (resp. 0, 2, 4, 6 of an actuator register) stand for
SensorStatusBits(d) == Bit(d, 0) + 4 * Bit(d, 4)

ActuatorStatusBits(d) ==
    16 * Bit(d, 0) + 32 * Bit(d, 2) + 64 * Bit(d, 4) + 128 * Bit(d, 6)

(***************************************************************************)
(* C2 amended: after an accepted write of D to power_sensors, bits 0 and 2 *)
(* of power_state and of connected_device equal bits 0 and 4 of D; after   *)
(* an accepted write of D to power_actuators, their bits 4, 5, 6, 7 equal  *)
(* bits 0, 2, 4, 6 of D.                                                   *)
(***************************************************************************)
C2_PowerPropagation ==
    /\ AcceptedWrite(4, 251) =>
         /\ BitAnd(g_memory.power_state, 5) = SensorStatusBits(LastData)
         /\ BitAnd(g_memory.connected_device, 5) = SensorStatusBits(LastData)
    /\ AcceptedWrite(4, 252) =>
         /\ BitAnd(g_memory.power_state, 240) = ActuatorStatusBits(LastData)
         /\ BitAnd(g_memory.connected_device, 240)
              = ActuatorStatusBits(LastData)

\* the humidity sensor alone was switched off: status bit 2 is clear, and
\* status bit 4 (the LED) is still set although D & 0x10 = 0x10 is not
C2_Witness ==
    /\ AcceptedWrite(4, 251)
    /\ LastData = 1
    /\ g_memory.power_state = 251
    /\ g_memory.connected_device = 251

(***************************************************************************)
(* C3: in every reachable device state the bits outside each register's    *)
(* write-mask are 0 (heater & 0xF0, doors & 0xAA, power_sensors & 0xEE,    *)
(* power_actuators & 0xAA, MAIN reserved), and a write to one of these     *)
(* registers is answered with an echo and stores D & mask.                 *)
(***************************************************************************)
C3_ReservedBitsZero ==
    /\ BitAnd(g_memory.actuator_c, 240) = 0
    /\ BitAnd(g_memory.actuator_d, 170) = 0
    /\ BitAnd(g_memory.power_sensors, 238) = 0
    /\ BitAnd(g_memory.power_actuators, 170) = 0
    /\ g_memory.reserved_main = 0
    /\ LastWas(3, 48, 1) =>
         response = command /\ g_memory.actuator_c = BitAnd(LastData, 15)
    /\ LastWas(3, 64, 1) =>
         response = command /\ g_memory.actuator_d = BitAnd(LastData, 85)
    /\ LastWas(4, 251, 1) =>
         response = command /\ g_memory.power_sensors = BitAnd(LastData, 17)
    /\ LastWas(4, 252, 1) =>
         response = command
         /\ g_memory.power_actuators = BitAnd(LastData, 85)

\* 0xFF was written to the doors register and 0x55 was stored
C3_Witness ==
    /\ LastWas(3, 64, 1)
    /\ LastData = 255
    /\ response = command
    /\ g_memory.actuator_d = 85

\* the registers process_command accepts writes to
WritableRegisters ==
    { <<3, 16>>, <<3, 32>>, <<3, 48>>, <<3, 64>>,
      <<4, 251>>, <<4, 252>>, <<4, 253>>, <<4, 254>> }

(***************************************************************************)
(* C4: the response to a write frame to a recognized ACTUATOR or CONTROL   *)
(* offset carries the request's base, offset, rw and data (the original D, *)
(* not the stored value).                                                  *)
(***************************************************************************)
C4_WriteEcho ==
    \A r \in WritableRegisters :
        LastWas(r[1], r[2], 1) =>
            /\ ValidFormat(response)
            /\ ParseBase(response) = LastBase
            /\ ParseOffset(response) = LastOffset
            /\ ParseRw(response) = LastRw
            /\ ParseData(response) = LastData

\* 0xFF was written to the heater: 0x0F is stored, 0xFF is echoed
C4_Witness ==
    /\ LastWas(3, 48, 1)
    /\ LastData = 255
    /\ g_memory.actuator_c = 15
    /\ ParseData(response) = 255

\* the last payload was a write frame to base MAIN or SENSOR
ReadOnlyWriteCmd ==
    /\ Processed
    /\ ValidFormat(command)
    /\ LastBase \in {1, 2}
    /\ LastRw = 1

\* the registers a sensor tick does not write
OutsideTick(mem) ==
    [mem EXCEPT !.sensor_a_reading = 0, !.sensor_b_reading = 0,
                !.error_state = 0]

(***************************************************************************)
(* C5: a write frame to base MAIN or SENSOR, whatever its offset and data, *)
(* is answered 1FFFFF and changes no register other than those a sensor    *)
(* tick writes.                                                            *)
(***************************************************************************)
C5_ReadOnlyBases ==
    [][ReadOnlyWriteCmd' =>
          /\ response' = ERR_FORBIDDEN
          /\ OutsideTick(g_memory') = OutsideTick(g_memory)]_vars

\* a write of 0xFF to error_state (MAIN 03) was refused
C5_Witness ==
    /\ LastWas(1, 3, 1)
    /\ LastData = 255
    /\ response = ERR_FORBIDDEN
    /\ g_memory.error_state # 255

(***************************************************************************)
(* C6: a payload that is not exactly six characters of [0-9A-Fa-f] is      *)
(* answered 1FFFFF, and a six-hex-digit frame whose rw digit is in 2..F is *)
(* answered 2FFFFF.                                                        *)
(***************************************************************************)
C6_FrameHygiene ==
    Processed =>
        /\ ~ValidFormat(command) => response = ERR_FORBIDDEN
        /\ (ValidFormat(command) /\ LastRw \in 2..15) =>
               response = ERR_INVALID

\* an rw digit of F on the reserved base
C6_Witness ==
    /\ Processed
    /\ ValidFormat(command)
    /\ LastRw = 15
    /\ LastBase = 0
    /\ response = ERR_INVALID

(***************************************************************************)
(* C7 as stated: every six-hex-digit frame whose base digit is 0 is        *)
(* answered 1FFFFF, whatever its offset, rw digit and data.                *)
(***************************************************************************)
C7_Original ==
    (Processed /\ ValidFormat(command) /\ LastBase = 0) =>
        response = ERR_FORBIDDEN

(***************************************************************************)
(* C7 amended: a six-hex-digit frame whose base digit is 0 is answered     *)
(* 1FFFFF when its rw digit is 0 or 1, whatever its offset and data, and   *)
(* 2FFFFF when its rw digit is in 2..F.                                    *)
(***************************************************************************)
C7_ReservedBase ==
    (Processed /\ ValidFormat(command) /\ LastBase = 0) =>
        response = IF LastRw \in {0, 1} THEN ERR_FORBIDDEN ELSE ERR_INVALID

\* a write to the reserved base was refused
C7_Witness ==
    /\ LastWas(0, 0, 1)
    /\ LastData = 255
    /\ response = ERR_FORBIDDEN

(***************************************************************************)
(* C8: both reset registers hold 0 in every state between two commands,    *)
(* whatever was written to them, and a read of either returns 00.          *)
(***************************************************************************)
C8_ResetAutoClear ==
    /\ g_memory.reset_sensors = 0
    /\ g_memory.reset_actuators = 0
    /\ (LastWas(4, 253, 0) \/ LastWas(4, 254, 0)) =>
           response = ReadResponse(command, 0)

\* 0xFF was written to reset_actuators, and the register holds 0
C8_Witness ==
    /\ AcceptedWrite(4, 254)
    /\ LastData = 255
    /\ g_memory.reset_actuators = 0

(***************************************************************************)
(* C9 as stated: after an accepted write of D to a reset register with     *)
(* write-mask M, (error_state & (D & M)) == 0 when the response is sent.   *)
(***************************************************************************)
C9_Original ==
    /\ AcceptedWrite(4, 253) =>
         BitAnd(g_memory.error_state, BitAnd(LastData, 17)) = 0
    /\ AcceptedWrite(4, 254) =>
         BitAnd(g_memory.error_state, BitAnd(LastData, 85)) = 0

(***************************************************************************)
(* C9 amended: after an accepted write of D to a reset register, the       *)
(* error_state bit of every component whose reset bit is set in D          *)
(* (error_state bits 0, 2 for reset_sensors bits 0, 4; bits 4, 5, 6, 7 for *)
(* reset_actuators bits 0, 2, 4, 6) is 0 when the response is sent, unless *)
(* it is a sensor bit that the sensor tick of that same command raised.    *)
(***************************************************************************)
C9_ResetClearsError ==
    /\ AcceptedWrite(4, 253) =>
         BitClear(BitAnd(g_memory.error_state, SensorStatusBits(LastData)),
                  raised) = 0
    /\ AcceptedWrite(4, 254) =>
         BitAnd(g_memory.error_state, ActuatorStatusBits(LastData)) = 0

\* the temperature error was raised, and a reset of the temperature sensor
\* cleared it
C9_Witness ==
    /\ AcceptedWrite(4, 253)
    /\ LastData = 1
    /\ Bit(before.error_state, 0) = 1
    /\ Bit(g_memory.error_state, 0) = 0

\* the value register and the reset bit of each actuator
ActuatorResetBits ==
    { <<"actuator_a", 0>>, <<"actuator_b", 2>>, <<"actuator_c", 4>>,
      <<"actuator_d", 6>> }

(***************************************************************************)
(* C10: an accepted write of D to reset_actuators zeroes the value         *)
(* register of the LED, fan, heater, doors when bit 0, 2, 4, 6 of D is     *)
(* set, and leaves the value register of every other actuator as it was    *)
(* before the write.                                                       *)
(***************************************************************************)
C10_ResetActuatorValues ==
    AcceptedWrite(4, 254) =>
        \A a \in ActuatorResetBits :
            g_memory[a[1]] =
                IF Bit(LastData, a[2]) = 1 THEN 0 ELSE before[a[1]]

\* the fan ran at 129, and a reset of the fan alone zeroed it
C10_Witness ==
    /\ AcceptedWrite(4, 254)
    /\ LastData = 4
    /\ before.actuator_b = 129
    /\ g_memory.actuator_b = 0

(***************************************************************************)
(* C11: a command that leaves a sensor's bit of power_sensors at 0 (bit 0  *)
(* temperature, bit 4 humidity) leaves that sensor's reading register      *)
(* (2/11 resp. 2/21) as it was; so from the write that clears the bit to   *)
(* the write that sets it again the reading keeps one value, whatever the  *)
(* commands in between are.                                                *)
(***************************************************************************)
C11_SensorGating ==
    [][/\ Bit(g_memory'.power_sensors, 0) = 0 =>
            g_memory'.sensor_a_reading = g_memory.sensor_a_reading
       /\ Bit(g_memory'.power_sensors, 4) = 0 =>
            g_memory'.sensor_b_reading = g_memory.sensor_b_reading]_vars

\* the temperature sensor was switched off, then a reset of the actuators
\* ran a tick that raised the humidity error alone and kept the temperature
C11_Witness ==
    /\ ncmds = 2
    /\ AcceptedWrite(4, 254)
    /\ Bit(g_memory.power_sensors, 0) = 0
    /\ Bit(g_memory.power_sensors, 4) = 1
    /\ ticked
    /\ raised = 4
    /\ g_memory.sensor_a_reading \in {r[1] : r \in InitReadings}

(***************************************************************************)
(* The last driver call, as the properties below read it.                  *)
(***************************************************************************)
\* the handle has made no call yet
Idle == call = NoCall

\* the last call was op and returned true
Succeeded(op) == call.op = op /\ result.ok

\* every exchange of the last call was delivered
AllDelivered == \A i \in 1..Len(wire) : wire[i].outcome = "ok"

\* x with bit b replaced by v
WithBit(x, b, v) == x - Bit(x, b) * 2 ^ b + v * 2 ^ b

\* the values a doors register can hold (bits 0, 2, 4, 6)
DoorsValues == { BitAnd(d, 85) : d \in 0..255 }

\* a session whose device holds d in the doors register
SessionWithDoors(d) == [Session EXCEPT !.mem.actuator_d = d]

EchoDiffers ==
    \/ ParseBase(response) # call.base
    \/ ParseOffset(response) # call.offset
    \/ ParseRw(response) # 1
    \/ ParseData(response) # call.value

(***************************************************************************)
(* C16 as stated: write_register reports success only if the response      *)
(* echoes the request's base, its offset, rw = 1 and data == value; a      *)
(* response that differs from the request in any of these four fields      *)
(* makes the write fail with device_error.                                 *)
(***************************************************************************)
C16_Original ==
    call.op = "write_register" =>
        /\ result.ok => (ValidFormat(response) /\ ~EchoDiffers)
        /\ (ValidFormat(response) /\ EchoDiffers) =>
               (~result.ok /\ result.error_code = DRIVER_ERROR_DEVICE_ERROR)

ErrorFrames == {ERR_FORBIDDEN, ERR_INVALID, ERR_GENERAL}

(***************************************************************************)
(* C17 as stated: whenever the response to a register read or write of the *)
(* driver is an error frame (1FFFFF, 2FFFFF, 3FFFFF), the operation fails  *)
(* with device_error; the FF of the frame is not returned as register data *)
(* and not accepted as the echo of a write.                                *)
(***************************************************************************)
C17_Original ==
    (call.op \in {"read_register", "write_register"}
     /\ response \in ErrorFrames) =>
        (~result.ok /\ result.error_code = DRIVER_ERROR_DEVICE_ERROR)

(***************************************************************************)
(* C18 as stated: set_door reports success only after a read-back of the   *)
(* doors register, issued after its write, showed the target bit equal to  *)
(* the requested state.                                                    *)
(***************************************************************************)
C18_Original ==
    Succeeded("set_door") =>
        /\ Len(wire) = 3
        /\ wire[2].request
             = format_write_command(BASE_ACTUATOR, OFFSET_DOORS,
                                    ParseData(wire[2].request))
        /\ wire[3].request = format_read_command(BASE_ACTUATOR, OFFSET_DOORS)
        /\ wire[3].outcome = "ok"
        /\ ValidFormat(wire[3].response)
        /\ Bit(ParseData(wire[3].response), 2 * (call.id - 1)) = call.value

\* the bit of each component in its CONTROL register
ComponentBit(c) ==
    CASE c = COMPONENT_TEMPERATURE -> 0
      [] c = COMPONENT_HUMIDITY -> 4
      [] c = COMPONENT_LED -> 0
      [] c = COMPONENT_FAN -> 2
      [] c = COMPONENT_HEATER -> 4
      [] c = COMPONENT_DOORS -> 6

\* a session whose device holds ps and pa in the two power registers
SessionWithPower(ps, pa) ==
    [Session EXCEPT !.mem.power_sensors = ps, !.mem.power_actuators = pa]

ActuatorRegister ==
    { <<COMPONENT_LED, "actuator_a">>, <<COMPONENT_FAN, "actuator_b">>,
      <<COMPONENT_HEATER, "actuator_c">>, <<COMPONENT_DOORS, "actuator_d">> }

UpperCase(text) == [i \in 1..Len(text) |-> HexUpper[HexVal(text[i]) + 1]]

\* the text holds a lower-case hex letter
HasLowerCase(text) == \E i \in 1..Len(text) : text[i] \notin
                                                 {HexUpper[j] : j \in 1..16}

(***************************************************************************)
(* C30 as stated: format(parse(f)) = f for every six-character frame f     *)
(* over [0-9A-Fa-f], error frames included.                                *)
(***************************************************************************)
C30_Original ==
    (call.op = "round_trip" /\ ValidFormat(command)) => response = command

(***************************************************************************)
(* C30, amended: for every six-character frame f over [0-9A-Fa-f], error   *)
(* frames included, parse(f) succeeds and format(parse(f)) is f with its   *)
(* letters in upper case: it is f itself exactly when f holds no           *)
(* lower-case letter, and it parses to the same message as f.              *)
(***************************************************************************)
C30_FormatParse ==
    (call.op = "round_trip" /\ ValidFormat(command)) =>
        /\ result.ok
        /\ response = UpperCase(command)
        /\ (response = command) <=> ~HasLowerCase(command)
        /\ protocol_parse_message(response) = protocol_parse_message(command)

\* the frame 1Fb0b0 came back as 1FB0B0
C30_Witness ==
    /\ call.op = "round_trip"
    /\ command = <<"1", "F", "b", "0", "b", "0">>
    /\ response = <<"1", "F", "B", "0", "B", "0">>

(***************************************************************************)
(* The connection: connect, disconnect, the order of frames on a session   *)
(* and the timeout.                                                        *)
(***************************************************************************)
\* the call op has returned
Back(op) ==
    /\ call.op = op
    /\ driver_pc = "idle"

\* C21, as the specification states it: on one session the driver never
\* sends a command frame while the response to a frame it sent earlier has
\* not been received, also after an operation that ended with a timeout and
\* left the session connected.  comm_send_receive leaves the session
\* connected and the late response unread when its recv times out, and the
\* next operation sends its frame: this fails.
C21_Original ==
    pending <= 1

\* C27: driver_disconnect on a connected session leaves it disconnected with
\* its socket closed, whether or not exit could be sent and whatever the call
\* returns; on a session that is not connected it succeeds and sends nothing.
C27_Disconnect ==
    [][(call'.op = "disconnect" /\ ncalls' = ncalls + 1) =>
          /\ ~comm_context'.connected
          /\ comm_context'.socket = INVALID_SOCKET
          /\ sockets' = {}
          /\ comm_context.connected => wire'[1].request = EXIT
          /\ ~comm_context.connected =>
                /\ result'.ok
                /\ result'.error_code = DRIVER_ERROR_NONE
                /\ wire' = <<>>
                /\ outbox' = outbox]_vars

\* C27, its case: a disconnect of a connected session whose send of exit
\* failed has returned false, and the session is disconnected
C27_Witness ==
    /\ Back("disconnect")
    /\ wire # <<>>
    /\ wire[1].outcome = "send_failed"
    /\ ~result.ok
    /\ result.error_code = DRIVER_ERROR_COMMUNICATION
    /\ ~comm_context.connected
    /\ sockets = {}

\* C28, as the specification states it: driver_connect connects the session
\* only if the first payload received on the new stream is exactly the three
\* bytes ACK; in every other case it fails with connection_failed, the
\* socket is closed and the session stays not connected.  comm_connect
\* compares with strcmp, which stops at the first NUL of the payload: this
\* fails.
C28_Original ==
    (Back("connect") /\ wire # <<>>) =>
       \/ /\ wire[1].outcome = "received"
          /\ wire[1].response = ACK
       \/ /\ ~result.ok
          /\ result.error_code = DRIVER_ERROR_CONNECTION_FAILED
          /\ ~comm_context.connected
          /\ comm_context.socket = INVALID_SOCKET
          /\ sockets = {}

\* C29, as the specification states it: with a peer that accepts the
\* connection and never answers a command, every register operation
\* eventually completes, returns failure and reports the error code timeout.
\* After driver_set_timeout(handle, 0) the recv has no timeout and never
\* returns: this fails.
C29_Original ==
    (driver_pc = "comm_send_receive" /\ peer.mode = "silent")
       ~> (/\ driver_pc = "idle"
           /\ call.op \in {c.op : c \in ConnRequests}
           /\ ~result.ok
           /\ result.error_code = DRIVER_ERROR_TIMEOUT)

(***************************************************************************)
(* The server: one client at a time, exit and the end of a stream, and     *)
(* device_stop.                                                            *)
(***************************************************************************)
\* C24: at most one client connection is served at any time: the server
\* calls accept for a new client only when the socket of the previous client
\* has been closed.
C24_OneClient ==
    /\ Cardinality(served) <= 1
    /\ At("server", "accept") => served = {}

\* C24, its case: the server is back in accept after it served a client,
\* and the next client waits
C24_Witness ==
    /\ At("server", "accept")
    /\ g_running
    /\ clients["c1"].acked
    /\ ncmds > 0
    /\ clients["c2"].status = "queued"

\* every other client has closed its stream or has not connected
OthersGone(c) ==
    \A d \in ClientIds \ {c} : clients[d].status \in {"none", "closed"}

\* the steps of the server thread out of recv on exit, an error or the end
\* of the stream, out of the close of the client socket, and out of the test
\* of the outer loop while the server runs
ServerLeavesClient ==
    /\ (/\ At("server", "recv")
        /\ ~At("server", "recv")'
        /\ threads'["server"].buffer \in {EXIT, <<>>})
          => (At("server", "close")' /\ ncmds' = ncmds)
    /\ (At("server", "close") /\ ~At("server", "close")')
          => (At("server", "outer")' /\ served' = {})
    /\ (At("server", "outer") /\ ~At("server", "outer")' /\ g_running)
          => At("server", "accept")'

C26_StopTerminates ==
    ~At("stop", "idle")
       ~> (/\ At("stop", "returned")
           /\ At("server", "done")
           /\ ~g_running
           /\ ~listening
           /\ served = {})

\* C26, its case: device_stop has returned and a client it cut off still
\* holds its end of the stream open
C26_Witness ==
    /\ At("stop", "returned")
    /\ At("server", "done")
    /\ \E c \in ClientIds : clients[c].status = "open" /\ clients[c].acked

(***************************************************************************)
(* The device memory and its callers' threads.                             *)
(***************************************************************************)
\* the power bits of the sensors and their status bits agree, as they do
\* before and after every write of power_sensors
PowerApplied(mem) ==
    /\ Bit(mem.power_sensors, 0) = Bit(mem.connected_device, 0)
    /\ Bit(mem.power_sensors, 0) = Bit(mem.power_state, 0)
    /\ Bit(mem.power_sensors, 4) = Bit(mem.connected_device, 2)
    /\ Bit(mem.power_sensors, 4) = Bit(mem.power_state, 2)

\* C23, as the specification states it: all access to the memory block is
\* mutually exclusive; a command that enters through device_process_command
\* while the server thread interprets a frame, or device_get_memory, never
\* observes or produces a partially applied command, and one command with
\* its sensor tick runs to completion before the next begins.  The device
\* takes no lock: this fails.
C23_Original ==
    /\ Cardinality(Inside) <= 1
    /\ \A t \in RaceThreads : PowerApplied(threads[t].copy)
    /\ Inside = {} => PowerApplied(g_memory)

\* the frames of each thread on the wire are next to one another
Contiguous ==
    \A i \in 1..Len(wire) : \A k \in i..Len(wire) :
       wire[i].thread = wire[k].thread =>
          \A j \in i..k : wire[j].thread = wire[i].thread

\* the door of thread t is in the state its last call, which succeeded,
\* asked for
TookEffect(t) ==
    threads[t].op = "set_door" =>
        DoorState(g_memory.actuator_d, threads[t].door_id) = threads[t].state

\* C22: the calls of several threads on one session are serialized by its
\* lock: the frames of a call (for driver_set_door the read, the write and
\* the read-back) are not interleaved on the wire with those of another
\* call, and successful calls of driver_set_door for different doors both
\* take effect.
C22_Serialized ==
    /\ Cardinality(OnTheWire) <= 1
    /\ \A t \in DriverThreads :
          threads[t].pc \in {"read", "write", "verify", "leave"} => lock = t
    /\ Contiguous
    /\ \A t \in DriverThreads :
          (threads[t].returned /\ threads[t].ok) => TookEffect(t)

\* C22, its case: both threads have returned from a successful
\* driver_set_door that opened a closed door and closed an open one
C22_Witness ==
    /\ \A t \in DriverThreads :
          threads[t].op = "set_door" /\ threads[t].returned /\ threads[t].ok
    /\ threads["t1"].state = DOOR_CLOSED
    /\ threads["t2"].state = DOOR_OPEN
    /\ g_memory.actuator_d # EarlierSession.actuator_d


(***************************************************************************)
(* C31: parse(format(m)) = m for every well-formed message m (base and rw  *)
(* in 0..15, offset and data in 0..255, error 0): the text                 *)
(* protocol_format_message writes is parsed by protocol_parse_message, and *)
(* the message that comes out has the five fields of m.                    *)
(***************************************************************************)
C31_ParseFormat ==
    call.op = "format_parse" =>
        /\ result.ok
        /\ [base |-> result.base, offset |-> result.offset, rw |-> result.rw,
            data |-> result.data, error |-> result.error] = pre

\* the message (A, AB, F, CD) was written as AABFCD and read back
C31_Witness ==
    /\ call.op = "format_parse"
    /\ pre = [base |-> 10, offset |-> 171, rw |-> 15, data |-> 205,
              error |-> 0]
    /\ response = <<"A", "A", "B", "F", "C", "D">>
    /\ result.ok
    /\ result.data = 205

\* the bit of power_actuators that belongs to the actuator register at an
\* offset of ACTUATOR (LAW.md: A, B, C, D at bits 0, 2, 4, 6)
PowerBitOf(offset) ==
    CASE offset = OFFSET_LED -> BIT_LED
      [] offset = OFFSET_FAN -> BIT_FAN
      [] offset = OFFSET_HEATER -> BIT_HEATER
      [] offset = OFFSET_DOORS -> BIT_DOORS

\* the actuator register at an offset of ACTUATOR
ActuatorAt(mem, offset) ==
    CASE offset = OFFSET_LED -> mem.actuator_a
      [] offset = OFFSET_FAN -> mem.actuator_b
      [] offset = OFFSET_HEATER -> mem.actuator_c
      [] offset = OFFSET_DOORS -> mem.actuator_d

\* the last command was a write to the value register of an actuator
\* whose power bit is 0
WriteToPoweredOff(offset) ==
    /\ ncmds > 0
    /\ ValidFormat(command)
    /\ ParseBase(command) = BASE_ACTUATOR
    /\ ParseOffset(command) = offset
    /\ ParseRw(command) = 1
    /\ Bit(g_memory.power_actuators, PowerBitOf(offset)) = 0

(***************************************************************************)
(* C32 as stated: while the bit of an actuator in power_actuators is 0, a  *)
(* write to the value register of that actuator does not change the        *)
(* register.                                                               *)
(***************************************************************************)
C32_Original ==
    \A offset \in {OFFSET_LED, OFFSET_FAN, OFFSET_HEATER, OFFSET_DOORS} :
        WriteToPoweredOff(offset) =>
            ActuatorAt(g_memory, offset) = ActuatorAt(before, offset)

\* the frames that reach the end of process_command (lines 537-551): six
\* hex characters, rw 0 or 1, and no write to MAIN or SENSOR
ReachesTick(cmd) ==
    /\ ValidFormat(cmd)
    /\ RwValid(ParseRw(cmd))
    /\ ~(ParseBase(cmd) \in {BASE_MAIN, BASE_SENSOR} /\ ParseRw(cmd) = 1)

Unrecognized(cmd) ==
    /\ ValidFormat(cmd)
    /\ RwValid(ParseRw(cmd))
    /\ \/ /\ ParseBase(cmd) = BASE_MAIN
          /\ ParseRw(cmd) = 0
          /\ ParseOffset(cmd) \notin 0..3
       \/ /\ ParseBase(cmd) = BASE_SENSOR
          /\ ParseRw(cmd) = 0
          /\ ParseOffset(cmd) \notin {16, 17, 32, 33}
       \/ /\ ParseBase(cmd) = BASE_ACTUATOR
          /\ ParseOffset(cmd) \notin
                {OFFSET_LED, OFFSET_FAN, OFFSET_HEATER, OFFSET_DOORS}
       \/ /\ ParseBase(cmd) = BASE_CONTROL
          /\ ParseOffset(cmd) \notin
                {OFFSET_POWER_SENSORS, OFFSET_POWER_ACTUATORS,
                 OFFSET_RESET_SENSORS, OFFSET_RESET_ACTUATORS}

\* the server thread is back at the head of the loop of line 219, on the
\* stream of the same client
KeepsServing ==
    /\ threads'["server"].pc = "inner"
    /\ g_running'
    /\ g_client_socket' = g_client_socket
    /\ g_client_socket' \in served'
    /\ clients'[g_client_socket'].status = clients[g_client_socket].status

\* the step of handle_client that answers a payload with an error frame
ErrorAnswer ==
    (ncmds' = ncmds + 1 /\ IsErrorFrame(response')) =>
        /\ OutsideTick(g_memory') = OutsideTick(g_memory)
        /\ BitClear(g_memory'.error_state, 5)
              = BitClear(g_memory.error_state, 5)
        /\ BitAnd(g_memory'.error_state, g_memory.error_state)
              = g_memory.error_state
        /\ ~ticked' => g_memory' = g_memory
        /\ KeepsServing

UnrecognizedAnswer ==
    (ncmds' = ncmds + 1 /\ Unrecognized(command')) =>
        response' = ERR_INVALID

(***************************************************************************)
(* C34: a command the device answers with an error frame leaves every      *)
(* register as it was, except the sensor readings and the bits 0 and 2 of  *)
(* error_state that the sensor tick may set, and the server thread goes    *)
(* on to the next recv on the same client; a read of an unrecognized MAIN  *)
(* or SENSOR offset and any access to an unrecognized ACTUATOR or CONTROL  *)
(* offset are answered 2FFFFF.                                             *)
(***************************************************************************)
C34_ErrorFrames == [][ErrorAnswer /\ UnrecognizedAnswer]_vars

\* a write to the unrecognized ACTUATOR offset 0x50 was answered 2FFFFF
\* after an accepted write of the LED, the LED kept its value, and the
\* server thread is in the next recv with the client connected
C34_Witness ==
    /\ ncmds = 2
    /\ command = Frame(3, 80, 1, 255)
    /\ response = ERR_INVALID
    /\ g_memory.actuator_a = 255
    /\ g_memory.actuator_b = 200
    /\ At("server", "recv")
    /\ g_client_socket \in served
    /\ clients[g_client_socket].status = "open"

\* power_state as the two power registers determine it: bits 0 and 2 from
\* power_sensors, bits 4..7 from power_actuators
PowerDetermined ==
    /\ BitAnd(g_memory.power_state, 5)
          = SensorStatusBits(g_memory.power_sensors)
    /\ BitAnd(g_memory.power_state, 240)
          = ActuatorStatusBits(g_memory.power_actuators)

\* a step that processes a write to one power register leaves the bits of
\* power_state of the components of the other register as they were
PowerWritesApart ==
    /\ AcceptedWrite(4, 251)' =>
          BitAnd(g_memory'.power_state, 240)
             = BitAnd(g_memory.power_state, 240)
    /\ AcceptedWrite(4, 252)' =>
          BitAnd(g_memory'.power_state, 5) = BitAnd(g_memory.power_state, 5)

(***************************************************************************)
(* C35: in every reachable device state bit 0 of power_state equals bit 0  *)
(* of power_sensors, bit 2 equals bit 4 of power_sensors, and bits 4, 5,   *)
(* 6, 7 equal bits 0, 2, 4, 6 of power_actuators; a write to one power     *)
(* register changes no power_state bit of a component of the other         *)
(* register.                                                               *)
(***************************************************************************)
C35_PowerState == []PowerDetermined /\ [][PowerWritesApart]_vars

\* the LED was switched off, then the humidity sensor: the status bits of
\* the two (4 and 2) are clear and those of the others are set
C35_Witness ==
    /\ ncmds = 2
    /\ AcceptedWrite(4, 251)
    /\ g_memory.power_sensors = 1
    /\ g_memory.power_actuators = 84
    /\ g_memory.power_state = 235

\* the bit of each component in the status bytes of MAIN (connected_device,
\* power_state, error_state), as the device keeps them
StatusBit(c) ==
    CASE c = COMPONENT_TEMPERATURE -> 0
      [] c = COMPONENT_HUMIDITY -> 2
      [] c = COMPONENT_LED -> 4
      [] c = COMPONENT_FAN -> 5
      [] c = COMPONENT_HEATER -> 6
      [] c = COMPONENT_DOORS -> 7

\* a session whose device holds the memory mem
SessionWithMemory(mem) == [Session EXCEPT !.mem = mem]

(***************************************************************************)
(* C36 as stated: after a successful set_power_state(c, on),               *)
(* get_power_state(c) returns on and get_power_state of each other         *)
(* component returns what it returned before the call.                     *)
(***************************************************************************)
C36_Original ==
    Succeeded("set_power_state") =>
        \A c \in Components :
            \E after \in {driver_get_power_state(Session, c, Delivered(1))},
               prior \in {driver_get_power_state(SessionWithMemory(pre), c,
                                                 Delivered(1))} :
               /\ after.ok
               /\ after.value = IF c = call.id THEN call.value
                                ELSE prior.value

(***************************************************************************)
(* C37 as stated: get_error_state(c) returns true when the tick of c's     *)
(* sensor has raised its error flag, and false for a component whose error *)
(* flag is not raised.                                                     *)
(***************************************************************************)
C37_Original ==
    Succeeded("get_error_state") =>
        result.value = Bit(pre.error_state, StatusBit(call.id))

(***************************************************************************)
(* C38 as stated: the byte a successful register read of the driver        *)
(* returns is the data field of the response of the device to that very    *)
(* request, so it is the content of the register read: on a session with   *)
(* one caller the device has processed nothing since.  A response that     *)
(* arrives after its command timed out is read by the recv of the next     *)
(* command, and this fails.                                                *)
(***************************************************************************)
C38_Original ==
    (/\ driver_pc = "idle"
     /\ call.op \in {"get_led", "get_fan"}
     /\ result.ok
     /\ wire # <<>>) =>
        result.value = ActuatorAt(g_memory, call.offset)

\* thread t has returned false from its last call
Failed(t) == threads[t].returned /\ ~threads[t].ok

(***************************************************************************)
(* C39 as stated: the error code a failed call writes to *error_code is    *)
(* the code its own failure recorded, also when a call of another thread   *)
(* on the session fails at the same time.  The code is read from           *)
(* driver->last_error after LeaveCriticalSection, when another call may    *)
(* have recorded its own: this fails.                                      *)
(***************************************************************************)
C39_Original ==
    \A t \in DriverThreads :
        Failed(t) => threads[t].error_code = threads[t].recorded

\* the threads that are inside a call, between EnterCriticalSection and
\* LeaveCriticalSection
Executing == {t \in DriverThreads :
                 threads[t].pc \in {"reject", "read", "write", "verify",
                                    "leave"}}

(***************************************************************************)
(* C40: every return path of driver_set_door, driver_set_power_state and   *)
(* driver_reset_component releases the lock of the session: the lock is    *)
(* held only by a thread that is inside a call, so when no call is         *)
(* executing the lock is free and a thread that waits for it can take it.  *)
(***************************************************************************)
C40_LockReleased ==
    /\ \A t \in DriverThreads : lock = t => t \in Executing
    /\ Executing = {} => lock = "free"
    /\ \A t \in DriverThreads :
          (At(t, "enter") /\ Executing = {}) => ENABLED ThreadEnter(t)

\* t1 has returned from a driver_reset_component whose read timed out, and
\* t2, which called afterwards, holds the lock
C40_Witness ==
    /\ threads["t1"].op = "reset_component"
    /\ Failed("t1")
    /\ threads["t1"].error_code = DRIVER_ERROR_TIMEOUT
    /\ lock = "t2"
    /\ At("t2", "read")

====
